---- MODULE Spec2Model ----
(***************************************************************************)
(* A model of the KVDatabase skip lists.                                   *)
(*                                                                         *)
(*   tSkipList  (threadsafeskiplist.h): the lock-coupling skip list.  Each *)
(*              thread's call is a sequence of steps; a step ends where    *)
(*              the code may block on a mutex or touches a shared atomic.  *)
(*   SkipList   (skiplist/skiplist.h): the single-threaded skip list with  *)
(*              dump_file / load_file.                                     *)
(*                                                                         *)
(* Pointers are node ids, NULL is 0.  A null dereference ends the process  *)
(* (crashed).  An access to forward[i] with i above the node's allocated   *)
(* height, or to a freed node, is undefined behaviour: the step may end    *)
(* the process or go on with the memory found there.                       *)
(***************************************************************************)
EXTENDS Integers, Sequences, FiniteSets, TLC

\* ---------------------------------------------------------------- bounds
MaxLevel == 2
MaxKey == 3
MaxValue == 2
MaxListKeys == 2
NumThreads == 2
MaxOps == 3
MaxLines == 2
MaxLoads == 2

Threads == 1..NumThreads
Keys == 1..MaxKey
Values == 1..MaxValue
Levels == 0..MaxLevel

NULL == 0
Header == 1
NodeIds == 1..(MaxOps + 3)
NoThread == 0

VARIABLES heap, _skip_list_level, _element_count, pc, loc, crashed, uaf, nops

\* History of the single caller: pre is the list as it stood when the
\* running call started, abs maps each key to the value of its last
\* successful insert_element not followed by a delete_element (0: none).
VARIABLES pre, abs, completed

\* The single-threaded SkipList<int, string>: the list under insert_element
\* and delete_element, the text of STORE_FILE, the list a fresh SkipList
\* holds after load_file, and the last call with its result.
VARIABLES slist, file, loaded, phase, last

\* The calls made on the single-threaded list so far: track.live is the set
\* of keys passed to insert_element and not to a later delete_element,
\* track.gone the keys a delete_element was called for while they were live,
\* track.peak the highest _skip_list_level a call has left.
VARIABLES track

\* What the callers of the shared list may rely on: settled[k] is what the
\* last returned insert_element(k, v) or delete_element(k) left for every
\* later search_element(k), expect[t] is what the running search_element of
\* thread t was entitled to when it was invoked, race records two
\* overlapping delete_element calls of a key stored once.
VARIABLES settled, expect, race

\* tSkipList::dump_file: the owner of _file_mutex and the text written to
\* STORE_FILE.
VARIABLES _file_mutex, store_file

\* tSkipList::load_file: the lines of STORE_FILE, the number of the line
\* getline reads next, *key and *value, and the insert_element calls made
\* so far, each with the number of the line it was made for.
VARIABLES load

tvars == <<heap, _skip_list_level, _element_count, pc, loc, crashed, uaf, nops>>
ovars == <<settled, expect, race>>
dvars == <<_file_mutex, store_file, load>>

\* ------------------------------------------------------------- MutexNode
\* MutexNode(int level, K k, V v): node_level(level), key(k), value(v), and
\* forward[0..level] all NULL.  The slots above node_level model the memory
\* behind the array (reached only by an out-of-bounds access).
MutexNode(level, k, v) ==
    [st |-> "live", node_level |-> level, key |-> k, value |-> v,
     forward |-> [i \in Levels |-> NULL], mtx |-> NoThread]

NoNode ==
    [st |-> "none", node_level |-> 0, key |-> 0, value |-> 0,
     forward |-> [i \in Levels |-> NULL], mtx |-> NoThread]

\* The values the uninitialised "K k" of the constructor may hold when it is
\* passed as the header's level (a value above MaxLevel acts like MaxLevel).
HeaderLevels == {0, MaxLevel}

\* get_random_level: k counts from 1 and is capped at _max_level.
get_random_level == 1..MaxLevel

NoLocals ==
    [op |-> "none", key |-> 0, value |-> 0, random_level |-> 0,
     current |-> NULL, cur_mutex |-> NULL, next |-> NULL,
     update |-> [i \in Levels |-> NULL], hold_lock |-> FALSE,
     i |-> 0, update_level |-> 0, inserted_node |-> NULL,
     ret |-> 0, found |-> FALSE, value_out |-> 0]

\* tSkipList(int max_level): new SkipNode(k, v, _max_level) binds the
\* uninitialised k to the header's level.
TInit ==
    /\ \E hl \in HeaderLevels :
         heap = [n \in NodeIds |->
                   IF n = Header THEN MutexNode(hl, 0, MaxLevel) ELSE NoNode]
    /\ _skip_list_level = 0
    /\ _element_count = 0
    /\ pc = [t \in Threads |-> "idle"]
    /\ loc = [t \in Threads |-> NoLocals]
    /\ crashed = FALSE
    /\ uaf = FALSE
    /\ nops = 0

\* ---------------------------------------------------------------- helpers
OutOfBounds(h, n, i) == i > h[n].node_level
Freed(h, n) == h[n].st = "freed"

\* The outcomes of a step that dereferences null (the process ends), that
\* has undefined behaviour (ends or goes on), or that is well defined.
Outcomes(null, ub) ==
    IF null THEN {"crash"} ELSE IF ub THEN {"crash", "proceed"} ELSE {"proceed"}

Crash(freedAccess) ==
    /\ crashed' = TRUE
    /\ uaf' = (uaf \/ freedAccess)
    /\ UNCHANGED <<heap, _skip_list_level, _element_count, pc, loc, nops>>

Lock(h, n, t) == [h EXCEPT ![n].mtx = t]
Unlock(h, n) == [h EXCEPT ![n].mtx = NoThread]
UnlockAll(h, S) ==
    [n \in NodeIds |-> IF n \in S THEN [h[n] EXCEPT !.mtx = NoThread] ELSE h[n]]

\* The nodes "unlock ever prev node" releases: update[top] and every
\* update[i-1] that differs from update[i].
PrevNodes(update, top) == {update[j] : j \in 0..top}

\* size()
size == _element_count

\* new SkipNode(...): the allocator hands out a block not in use.
NewNode(h) == CHOOSE n \in NodeIds : h[n].st = "none" /\ \A m \in NodeIds : m < n => h[m].st # "none"

Goto(t, label) == pc' = [pc EXCEPT ![t] = label]

\* A call returns: the locals go, the arguments and the result stay visible.
Return(t, r, out) ==
    /\ pc' = [pc EXCEPT ![t] = "returned"]
    /\ loc' = [loc EXCEPT ![t] = [NoLocals EXCEPT !.op = loc[t].op, !.key = loc[t].key,
                                   !.value = loc[t].value,
                                   !.random_level = loc[t].random_level,
                                   !.ret = r, !.value_out = out]]

\* search_element returns a bool.
ReturnBool(t, b, out) ==
    /\ pc' = [pc EXCEPT ![t] = "returned"]
    /\ loc' = [loc EXCEPT ![t] = [NoLocals EXCEPT !.op = loc[t].op, !.key = loc[t].key,
                                   !.value = loc[t].value,
                                   !.random_level = loc[t].random_level,
                                   !.found = b, !.value_out = out]]

\* -------------------------------------------------- tSkipList::insert_element
\* line 188: the height is drawn before anything is locked.
InsCallOf(t, ks, vs, calls) ==
    /\ ~crashed /\ pc[t] \in {"idle", "returned"} /\ nops < calls
    /\ \E k \in ks, v \in vs, rl \in get_random_level :
         loc' = [loc EXCEPT ![t] = [NoLocals EXCEPT !.op = "insert", !.key = k,
                                     !.value = v, !.random_level = rl]]
    /\ Goto(t, "i_lock_header")
    /\ nops' = nops + 1
    /\ UNCHANGED <<heap, _skip_list_level, _element_count, crashed, uaf>>

InsCall(t) == InsCallOf(t, Keys, Values, MaxOps)

\* lines 190-198
InsLockHeader(t) ==
    /\ ~crashed /\ pc[t] = "i_lock_header"
    /\ heap[Header].mtx = NoThread
    /\ heap' = Lock(heap, Header, t)
    /\ loc' = [loc EXCEPT ![t].current = Header, ![t].cur_mutex = Header]
    /\ Goto(t, "i_hold")
    /\ UNCHANGED <<_skip_list_level, _element_count, crashed, uaf, nops>>

\* line 200
InsHoldLock(t) ==
    /\ ~crashed /\ pc[t] = "i_hold"
    /\ loc' = [loc EXCEPT ![t].hold_lock = (loc[t].random_level > _skip_list_level)]
    /\ Goto(t, "i_for")
    /\ UNCHANGED <<heap, _skip_list_level, _element_count, crashed, uaf, nops>>

\* line 202, the loop's initialisation
InsFor(t) ==
    /\ ~crashed /\ pc[t] = "i_for"
    /\ loc' = [loc EXCEPT ![t].i = _skip_list_level]
    /\ Goto(t, "i_while")
    /\ UNCHANGED <<heap, _skip_list_level, _element_count, crashed, uaf, nops>>

\* lines 202-203 and 215-216: one test of the while condition at level i.
InsWhile(t) ==
    /\ ~crashed /\ pc[t] = "i_while"
    /\ LET l == loc[t]
           cur == l.current
       IN IF l.i < 0
          THEN /\ Goto(t, "i_check")
               /\ UNCHANGED <<heap, _skip_list_level, _element_count, loc, crashed, uaf, nops>>
          ELSE LET nxt == heap[cur].forward[l.i]
                   fr == Freed(heap, cur) \/ (nxt # NULL /\ Freed(heap, nxt))
               IN \E o \in Outcomes(FALSE, fr \/ OutOfBounds(heap, cur, l.i)) :
                    IF o = "crash" THEN Crash(fr)
                    ELSE /\ IF nxt # NULL /\ heap[nxt].key < l.key
                            THEN /\ loc' = [loc EXCEPT ![t].next = nxt]
                                 /\ Goto(t, "i_advance")
                            ELSE /\ loc' = [loc EXCEPT ![t].update[l.i] = cur,
                                                        ![t].hold_lock = TRUE,
                                                        ![t].i = l.i - 1]
                                 /\ UNCHANGED pc
                         /\ uaf' = (uaf \/ fr)
                         /\ UNCHANGED <<heap, _skip_list_level, _element_count, crashed, nops>>

\* lines 204-213: lock the successor, step onto it, release or keep the
\* node left behind.
InsAdvance(t) ==
    /\ ~crashed /\ pc[t] = "i_advance"
    /\ LET l == loc[t]
           n == l.next
       IN /\ heap[n].mtx = NoThread \/ Freed(heap, n)
          /\ IF Freed(heap, n) THEN Crash(TRUE)
             ELSE /\ heap' = IF l.hold_lock THEN Lock(heap, n, t)
                              ELSE Unlock(Lock(heap, n, t), l.cur_mutex)
                  /\ loc' = [loc EXCEPT ![t].current = n, ![t].cur_mutex = n,
                                         ![t].next = NULL, ![t].hold_lock = FALSE]
                  /\ Goto(t, "i_while")
                  /\ UNCHANGED <<_skip_list_level, _element_count, crashed, uaf, nops>>

\* lines 220-223
InsCheck(t) ==
    /\ ~crashed /\ pc[t] = "i_check"
    /\ LET l == loc[t]
           nxt == heap[l.current].forward[0]
           fr == Freed(heap, l.current) \/ (nxt # NULL /\ Freed(heap, nxt))
       IN \E o \in Outcomes(FALSE, fr) :
            IF o = "crash" THEN Crash(fr)
            ELSE /\ loc' = [loc EXCEPT ![t].current = nxt]
                 /\ Goto(t, IF nxt # NULL /\ heap[nxt].key = l.key
                             THEN "i_exists" ELSE "i_raise")
                 /\ uaf' = (uaf \/ fr)
                 /\ UNCHANGED <<heap, _skip_list_level, _element_count, crashed, nops>>

\* lines 224-231: the key exists; unlock update[random_level] and below.
InsExists(t) ==
    /\ ~crashed /\ pc[t] = "i_exists"
    /\ LET l == loc[t]
           prev == PrevNodes(l.update, l.random_level)
           fr == \E n \in prev \ {NULL} : Freed(heap, n)
       IN \E o \in Outcomes(NULL \in prev, fr) :
            IF o = "crash" THEN Crash(fr)
            ELSE /\ heap' = UnlockAll(heap, prev)
                 /\ Return(t, 1, 0)
                 /\ uaf' = (uaf \/ fr)
                 /\ UNCHANGED <<_skip_list_level, _element_count, crashed, nops>>

\* line 239, then line 247 when the level is not raised
InsRaise(t) ==
    /\ ~crashed /\ pc[t] = "i_raise"
    /\ LET l == loc[t] IN
       IF l.random_level > _skip_list_level
       THEN /\ Goto(t, "i_raise_fill")
            /\ UNCHANGED <<heap, loc>>
       ELSE /\ heap' = [heap EXCEPT ![NewNode(heap)] =
                           MutexNode(l.key, l.value, l.random_level)]
            /\ loc' = [loc EXCEPT ![t].inserted_node = NewNode(heap), ![t].i = 0]
            /\ Goto(t, "i_splice")
    /\ UNCHANGED <<_skip_list_level, _element_count, crashed, uaf, nops>>

\* lines 240-247
InsRaiseFill(t) ==
    /\ ~crashed /\ pc[t] = "i_raise_fill"
    /\ LET l == loc[t] IN
       /\ loc' = [loc EXCEPT
                    ![t].update = [i \in Levels |->
                        IF i >= _skip_list_level + 1 /\ i < l.random_level + 1
                        THEN Header ELSE l.update[i]],
                    ![t].inserted_node = NewNode(heap), ![t].i = 0]
       /\ _skip_list_level' = l.random_level
       /\ heap' = [heap EXCEPT ![NewNode(heap)] =
                      MutexNode(l.key, l.value, l.random_level)]
    /\ Goto(t, "i_splice")
    /\ UNCHANGED <<_element_count, crashed, uaf, nops>>

\* lines 250-253: one level of the splice.
InsSplice(t) ==
    /\ ~crashed /\ pc[t] = "i_splice"
    /\ LET l == loc[t]
           u == l.update[l.i]
           nn == l.inserted_node
       IN IF l.i > l.random_level
          THEN /\ Goto(t, "i_done")
               /\ UNCHANGED <<heap, _skip_list_level, _element_count, loc, crashed, uaf, nops>>
          ELSE LET fr == u # NULL /\ Freed(heap, u) IN
               \E o \in Outcomes(u = NULL, fr \/ OutOfBounds(heap, u, l.i)
                                              \/ OutOfBounds(heap, nn, l.i)) :
                 IF o = "crash" THEN Crash(fr)
                 ELSE /\ heap' = [heap EXCEPT ![nn].forward[l.i] = heap[u].forward[l.i],
                                               ![u].forward[l.i] = nn]
                      /\ loc' = [loc EXCEPT ![t].i = l.i + 1]
                      /\ uaf' = (uaf \/ fr)
                      /\ UNCHANGED <<_skip_list_level, _element_count, pc, crashed, nops>>

\* lines 254-262; _element_count ++ is one atomic step (std::atomic<int>).
InsDone(t) ==
    /\ ~crashed /\ pc[t] = "i_done"
    /\ LET l == loc[t]
           prev == PrevNodes(l.update, l.random_level)
           fr == \E n \in prev \ {NULL} : Freed(heap, n)
       IN \E o \in Outcomes(NULL \in prev, fr) :
            IF o = "crash" THEN Crash(fr)
            ELSE /\ _element_count' = _element_count + 1
                 /\ heap' = UnlockAll(heap, prev)
                 /\ Return(t, 0, 0)
                 /\ uaf' = (uaf \/ fr)
                 /\ UNCHANGED <<_skip_list_level, crashed, nops>>

\* -------------------------------------------------- tSkipList::search_element
SearchCall(t) ==
    /\ ~crashed /\ pc[t] \in {"idle", "returned"} /\ nops < MaxOps
    /\ \E k \in Keys :
         loc' = [loc EXCEPT ![t] = [NoLocals EXCEPT !.op = "search", !.key = k]]
    /\ Goto(t, "s_lock_header")
    /\ nops' = nops + 1
    /\ UNCHANGED <<heap, _skip_list_level, _element_count, crashed, uaf>>

\* lines 267-270
SearchLockHeader(t) ==
    /\ ~crashed /\ pc[t] = "s_lock_header"
    /\ heap[Header].mtx = NoThread
    /\ heap' = Lock(heap, Header, t)
    /\ loc' = [loc EXCEPT ![t].current = Header, ![t].cur_mutex = Header]
    /\ Goto(t, "s_for")
    /\ UNCHANGED <<_skip_list_level, _element_count, crashed, uaf, nops>>

\* line 273, the loop's initialisation
SearchFor(t) ==
    /\ ~crashed /\ pc[t] = "s_for"
    /\ loc' = [loc EXCEPT ![t].i = _skip_list_level]
    /\ Goto(t, "s_while")
    /\ UNCHANGED <<heap, _skip_list_level, _element_count, crashed, uaf, nops>>

\* lines 273-274: one test of the while condition at level i.
SearchWhile(t) ==
    /\ ~crashed /\ pc[t] = "s_while"
    /\ LET l == loc[t]
           cur == l.current
       IN IF l.i < 0
          THEN /\ Goto(t, "s_final")
               /\ UNCHANGED <<heap, _skip_list_level, _element_count, loc, crashed, uaf, nops>>
          ELSE LET nxt == heap[cur].forward[l.i]
                   fr == Freed(heap, cur) \/ (nxt # NULL /\ Freed(heap, nxt))
               IN \E o \in Outcomes(FALSE, fr \/ OutOfBounds(heap, cur, l.i)) :
                    IF o = "crash" THEN Crash(fr)
                    ELSE /\ IF nxt # NULL /\ heap[nxt].key < l.key
                            THEN /\ loc' = [loc EXCEPT ![t].next = nxt]
                                 /\ Goto(t, "s_advance")
                            ELSE /\ loc' = [loc EXCEPT ![t].i = l.i - 1]
                                 /\ UNCHANGED pc
                         /\ uaf' = (uaf \/ fr)
                         /\ UNCHANGED <<heap, _skip_list_level, _element_count, crashed, nops>>

\* line 275: the successor's mutex is locked while the node the thread came
\* from is still locked.
SearchAdvance(t) ==
    /\ ~crashed /\ pc[t] = "s_advance"
    /\ LET n == loc[t].next
       IN /\ heap[n].mtx = NoThread \/ Freed(heap, n)
          /\ IF Freed(heap, n) THEN Crash(TRUE)
             ELSE /\ heap' = Lock(heap, n, t)
                  /\ Goto(t, "s_release")
                  /\ UNCHANGED <<_skip_list_level, _element_count, loc, crashed, uaf, nops>>

\* lines 277-281: step to the successor and unlock the node left behind.
SearchRelease(t) ==
    /\ ~crashed /\ pc[t] = "s_release"
    /\ LET l == loc[t]
           n == l.next
       IN /\ heap' = Unlock(heap, l.cur_mutex)
          /\ loc' = [loc EXCEPT ![t].current = n, ![t].cur_mutex = n,
                                 ![t].next = NULL]
          /\ Goto(t, "s_while")
          /\ UNCHANGED <<_skip_list_level, _element_count, crashed, uaf, nops>>

\* line 285: current->forward[0]->mtx is reached through the pointer read
\* here, null or not.
SearchFinal(t) ==
    /\ ~crashed /\ pc[t] = "s_final"
    /\ LET l == loc[t]
           nxt == heap[l.current].forward[0]
           fr == Freed(heap, l.current)
       IN \E o \in Outcomes(nxt = NULL, fr) :
            IF o = "crash" THEN Crash(fr)
            ELSE /\ loc' = [loc EXCEPT ![t].next = nxt]
                 /\ Goto(t, "s_final_lock")
                 /\ uaf' = (uaf \/ fr)
                 /\ UNCHANGED <<heap, _skip_list_level, _element_count, crashed, nops>>

\* line 285: the lock on the level-0 successor.
SearchFinalLock(t) ==
    /\ ~crashed /\ pc[t] = "s_final_lock"
    /\ LET n == loc[t].next
       IN /\ heap[n].mtx = NoThread \/ Freed(heap, n)
          /\ IF Freed(heap, n) THEN Crash(TRUE)
             ELSE /\ heap' = Lock(heap, n, t)
                  /\ Goto(t, "s_finish")
                  /\ UNCHANGED <<_skip_list_level, _element_count, loc, crashed, uaf, nops>>

\* lines 287-301: unlock the node left behind, compare, unlock, return.
SearchFinish(t) ==
    /\ ~crashed /\ pc[t] = "s_finish"
    /\ LET l == loc[t]
           n == l.next
       IN /\ heap' = Unlock(Unlock(heap, l.cur_mutex), n)
          /\ IF heap[n].key = l.key
             THEN ReturnBool(t, TRUE, heap[n].value)
             ELSE ReturnBool(t, FALSE, 0)
          /\ UNCHANGED <<_skip_list_level, _element_count, crashed, uaf, nops>>

\* -------------------------------------------------- tSkipList::delete_element
DelCallOf(t, ks, calls) ==
    /\ ~crashed /\ pc[t] \in {"idle", "returned"} /\ nops < calls
    /\ \E k \in ks :
         loc' = [loc EXCEPT ![t] = [NoLocals EXCEPT !.op = "delete", !.key = k]]
    /\ Goto(t, "d_lock_header")
    /\ nops' = nops + 1
    /\ UNCHANGED <<heap, _skip_list_level, _element_count, crashed, uaf>>

DelCall(t) == DelCallOf(t, Keys, MaxOps)

\* lines 306-314
DelLockHeader(t) ==
    /\ ~crashed /\ pc[t] = "d_lock_header"
    /\ heap[Header].mtx = NoThread
    /\ heap' = Lock(heap, Header, t)
    /\ loc' = [loc EXCEPT ![t].current = Header, ![t].cur_mutex = Header,
                           ![t].hold_lock = FALSE]
    /\ Goto(t, "d_for")
    /\ UNCHANGED <<_skip_list_level, _element_count, crashed, uaf, nops>>

\* line 317, the loop's initialisation
DelFor(t) ==
    /\ ~crashed /\ pc[t] = "d_for"
    /\ loc' = [loc EXCEPT ![t].i = _skip_list_level]
    /\ Goto(t, "d_while")
    /\ UNCHANGED <<heap, _skip_list_level, _element_count, crashed, uaf, nops>>

\* lines 317-318 and 330-331
DelWhile(t) ==
    /\ ~crashed /\ pc[t] = "d_while"
    /\ LET l == loc[t]
           cur == l.current
       IN IF l.i < 0
          THEN /\ Goto(t, "d_final")
               /\ UNCHANGED <<heap, _skip_list_level, _element_count, loc, crashed, uaf, nops>>
          ELSE LET nxt == heap[cur].forward[l.i]
                   fr == Freed(heap, cur) \/ (nxt # NULL /\ Freed(heap, nxt))
               IN \E o \in Outcomes(FALSE, fr \/ OutOfBounds(heap, cur, l.i)) :
                    IF o = "crash" THEN Crash(fr)
                    ELSE /\ IF nxt # NULL /\ heap[nxt].key < l.key
                            THEN /\ loc' = [loc EXCEPT ![t].next = nxt]
                                 /\ Goto(t, "d_advance")
                            ELSE /\ loc' = [loc EXCEPT ![t].update[l.i] = cur,
                                                        ![t].hold_lock = TRUE,
                                                        ![t].i = l.i - 1]
                                 /\ UNCHANGED pc
                         /\ uaf' = (uaf \/ fr)
                         /\ UNCHANGED <<heap, _skip_list_level, _element_count, crashed, nops>>

\* lines 319-328
DelAdvance(t) ==
    /\ ~crashed /\ pc[t] = "d_advance"
    /\ LET l == loc[t]
           n == l.next
       IN /\ heap[n].mtx = NoThread \/ Freed(heap, n)
          /\ IF Freed(heap, n) THEN Crash(TRUE)
             ELSE /\ heap' = IF l.hold_lock THEN Lock(heap, n, t)
                              ELSE Unlock(Lock(heap, n, t), l.cur_mutex)
                  /\ loc' = [loc EXCEPT ![t].current = n, ![t].cur_mutex = n,
                                         ![t].next = NULL, ![t].hold_lock = FALSE]
                  /\ Goto(t, "d_while")
                  /\ UNCHANGED <<_skip_list_level, _element_count, crashed, uaf, nops>>

\* line 333: current->forward[0]->mtx is reached through the pointer read
\* here, null or not.
DelFinal(t) ==
    /\ ~crashed /\ pc[t] = "d_final"
    /\ LET l == loc[t]
           nxt == heap[l.current].forward[0]
           fr == Freed(heap, l.current)
       IN \E o \in Outcomes(nxt = NULL, fr) :
            IF o = "crash" THEN Crash(fr)
            ELSE /\ loc' = [loc EXCEPT ![t].next = nxt]
                 /\ Goto(t, "d_final_lock")
                 /\ uaf' = (uaf \/ fr)
                 /\ UNCHANGED <<heap, _skip_list_level, _element_count, crashed, nops>>

\* lines 333-334
DelFinalLock(t) ==
    /\ ~crashed /\ pc[t] = "d_final_lock"
    /\ LET l == loc[t]
           n == l.next
       IN /\ heap[n].mtx = NoThread \/ Freed(heap, n)
          /\ IF Freed(heap, n) THEN Crash(TRUE)
             ELSE /\ heap' = Lock(heap, n, t)
                  /\ loc' = [loc EXCEPT ![t].current = n, ![t].next = NULL]
                  /\ Goto(t, "d_check")
                  /\ UNCHANGED <<_skip_list_level, _element_count, crashed, uaf, nops>>

\* lines 335-336
DelCheck(t) ==
    /\ ~crashed /\ pc[t] = "d_check"
    /\ LET l == loc[t] IN
       /\ loc' = [loc EXCEPT ![t].update_level = _skip_list_level, ![t].i = 0]
       /\ Goto(t, IF l.current # NULL /\ heap[l.current].key = l.key
                   THEN "d_unlink" ELSE "d_unlock")
    /\ UNCHANGED <<heap, _skip_list_level, _element_count, crashed, uaf, nops>>

\* lines 338-345: one level of the unlink.
DelUnlink(t) ==
    /\ ~crashed /\ pc[t] = "d_unlink"
    /\ LET l == loc[t]
           u == l.update[l.i]
           cur == l.current
       IN IF l.i > _skip_list_level
          THEN /\ Goto(t, "d_trim")
               /\ UNCHANGED <<heap, _skip_list_level, _element_count, loc, crashed, uaf, nops>>
          ELSE LET fr == u # NULL /\ Freed(heap, u) IN
               \E o \in Outcomes(u = NULL, fr \/ OutOfBounds(heap, u, l.i)) :
                 IF o = "crash" THEN Crash(fr)
                 ELSE IF heap[u].forward[l.i] # cur
                      THEN /\ Goto(t, "d_trim")
                           /\ uaf' = (uaf \/ fr)
                           /\ UNCHANGED <<heap, _skip_list_level, _element_count, loc, crashed, nops>>
                      ELSE \E o2 \in Outcomes(FALSE, OutOfBounds(heap, cur, l.i)) :
                             IF o2 = "crash" THEN Crash(fr)
                             ELSE /\ heap' = [heap EXCEPT ![u].forward[l.i] = heap[cur].forward[l.i]]
                                  /\ loc' = [loc EXCEPT ![t].i = l.i + 1]
                                  /\ uaf' = (uaf \/ fr)
                                  /\ UNCHANGED <<_skip_list_level, _element_count, pc, crashed, nops>>

\* line 348: one test of the trimming loop.
DelTrim(t) ==
    /\ ~crashed /\ pc[t] = "d_trim"
    /\ IF _skip_list_level > 0
       THEN \E o \in Outcomes(FALSE, OutOfBounds(heap, Header, _skip_list_level)) :
              IF o = "crash" THEN Crash(FALSE)
              ELSE /\ Goto(t, IF heap[Header].forward[_skip_list_level] = NULL
                              THEN "d_trim_dec" ELSE "d_free")
                   /\ UNCHANGED <<heap, _skip_list_level, _element_count, loc, crashed, uaf, nops>>
       ELSE /\ Goto(t, "d_free")
            /\ UNCHANGED <<heap, _skip_list_level, _element_count, loc, crashed, uaf, nops>>

\* line 349: _skip_list_level -- on the std::atomic<int>.
DelTrimDec(t) ==
    /\ ~crashed /\ pc[t] = "d_trim_dec"
    /\ _skip_list_level' = _skip_list_level - 1
    /\ Goto(t, "d_trim")
    /\ UNCHANGED <<heap, _element_count, loc, crashed, uaf, nops>>

\* delete_element without line 353.
DelFreeKeepCount(t) ==
    /\ ~crashed /\ pc[t] = "d_free"
    /\ heap' = [heap EXCEPT ![loc[t].current].st = "freed"]
    /\ Goto(t, "d_unlock")
    /\ UNCHANGED <<_skip_list_level, _element_count, loc, crashed, uaf, nops>>

\* lines 352-353: the node goes back to the allocator with its mutex locked;
\* _element_count is a std::atomic<int>.
DelFree(t) ==
    /\ ~crashed /\ pc[t] = "d_free"
    /\ heap' = [heap EXCEPT ![loc[t].current].st = "freed"]
    /\ _element_count' = _element_count - 1
    /\ Goto(t, "d_unlock")
    /\ UNCHANGED <<_skip_list_level, loc, crashed, uaf, nops>>

\* lines 355-360
DelUnlock(t) ==
    /\ ~crashed /\ pc[t] = "d_unlock"
    /\ LET l == loc[t]
           prev == PrevNodes(l.update, l.update_level)
           fr == \E n \in prev \ {NULL} : Freed(heap, n)
       IN \E o \in Outcomes(NULL \in prev, fr) :
            IF o = "crash" THEN Crash(fr)
            ELSE /\ heap' = UnlockAll(heap, prev)
                 /\ Return(t, 0, 0)
                 /\ uaf' = (uaf \/ fr)
                 /\ UNCHANGED <<_skip_list_level, _element_count, crashed, nops>>

\* ------------------------------------------------------- reading the list
RECURSIVE Walk(_, _, _, _)
Walk(h, n, lvl, fuel) ==
    IF n = NULL \/ fuel = 0 THEN <<>>
    ELSE <<n>> \o Walk(h, h[n].forward[lvl], lvl, fuel - 1)

\* The nodes reachable at level lvl from the header, in list order.
Chain(h, lvl) == Walk(h, h[Header].forward[lvl], lvl, Cardinality(NodeIds))
ChainNodes(h, lvl) == {Chain(h, lvl)[j] : j \in 1..Len(Chain(h, lvl))}
StoredKeys(h) == {h[n].key : n \in ChainNodes(h, 0)}
\* The values stored under key k (one, when k is stored once).
StoredValues(h, k) == {h[n].value : n \in {m \in ChainNodes(h, 0) : h[m].key = k}}
Forwards(h) == [n \in NodeIds |-> IF h[n].st = "live" THEN h[n].forward ELSE <<>>]
LocksHeldBy(h, t) == {n \in NodeIds : h[n].st = "live" /\ h[n].mtx = t}

NoPre == [keys |-> {}, values |-> [k \in Keys |-> {}], forwards |-> <<>>,
          level |-> 0, count |-> 0, deleted |-> 0]

\* What a call finds when it starts; deleted is the key the caller's previous
\* call was a delete_element of, when that key was stored.
Snapshot(t) ==
    [keys |-> StoredKeys(heap),
     values |-> [k \in Keys |-> StoredValues(heap, k)],
     forwards |-> Forwards(heap),
     level |-> _skip_list_level,
     count |-> _element_count,
     deleted |-> IF pc[t] = "returned" /\ loc[t].op = "delete" /\ loc[t].key \in pre.keys
                 THEN loc[t].key ELSE 0]

\* ================================================================ SkipList
\* std::string as a sequence of characters.
Digits == <<"0", "1", "2", "3", "4", "5", "6", "7", "8", "9">>
delimiter == ":"
\* The values stored: the empty string, a plain one, one holding the delimiter.
SValues == {<<>>, <<"a">>, <<"a", delimiter, "b">>}
\* int keys: a negative one, a one-digit one, then two-digit ones.
SKeys == {10 * k - 11 : k \in 1..MaxListKeys}
SNodeIds == 1..(Cardinality(SKeys) + 2)

\* Node(K k, V v, int level): forward[0..level], all NULL.
Node(k, v, level) ==
    [st |-> "live", key |-> k, value |-> v, node_level |-> level,
     forward |-> [i \in 0..level |-> NULL]]

SNoNode == [st |-> "none", key |-> 0, value |-> <<>>, node_level |-> 0, forward |-> <<>>]

\* SkipList(int max_level): the header has max_level + 1 forward slots.
SkipList(max_level) ==
    [heap |-> [n \in SNodeIds |-> IF n = Header THEN Node(0, <<>>, max_level) ELSE SNoNode],
     level |-> 0,
     count |-> 0]

\* lines 195-197 (and 262-264, 288-290): walk level i while the next key
\* is smaller than key.
RECURSIVE SAdvance(_, _, _, _)
SAdvance(h, cur, i, key) ==
    LET nxt == h[cur].forward[i] IN
    IF nxt # NULL /\ h[nxt].key < key THEN SAdvance(h, nxt, i, key) ELSE cur

\* lines 194-199: the descent; update[i] is where level i was left.
RECURSIVE SDescend(_, _, _, _, _)
SDescend(h, cur, i, key, update) ==
    IF i < 0 THEN [current |-> cur, update |-> update]
    ELSE LET c == SAdvance(h, cur, i, key)
         IN SDescend(h, c, i - 1, key, [update EXCEPT ![i] = c])

SNewNode(h) == CHOOSE n \in SNodeIds : h[n].st = "none" /\ \A m \in SNodeIds : m < n => h[m].st # "none"

\* lines 229-232
RECURSIVE SSplice(_, _, _, _, _)
SSplice(h, update, nn, i, top) ==
    IF i > top THEN h
    ELSE SSplice([h EXCEPT ![nn].forward[i] = h[update[i]].forward[i],
                           ![update[i]].forward[i] = nn],
                 update, nn, i + 1, top)

\* insert_element without the test of line 205.
NeverExists(h, current, key) == FALSE

\* line 205: the key is already stored at the place the descent reached.
SKeyExists(h, current, key) == current # NULL /\ h[current].key = key

\* SkipList::insert_element(key, value), with the height get_random_level()
\* draws when the key is new: the list after the call, and the result.
insert_element(L, key, value, random_level) ==
    LET d == SDescend(L.heap, Header, L.level, key, [i \in Levels |-> NULL])
        current == L.heap[d.current].forward[0]
    IN IF SKeyExists(L.heap, current, key)
       THEN [list |-> L, ret |-> 1]
       ELSE LET update == [i \in Levels |->
                             IF random_level > L.level /\ i >= L.level + 1
                                /\ i < random_level + 1
                             THEN Header ELSE d.update[i]]
                nn == SNewNode(L.heap)
                h1 == [L.heap EXCEPT ![nn] = Node(key, value, random_level)]
            IN [list |-> [heap |-> SSplice(h1, update, nn, 0, random_level),
                          level |-> IF random_level > L.level THEN random_level ELSE L.level,
                          count |-> L.count + 1],
                ret |-> 0]

\* SkipList::search_element(key)
search_element(L, key) ==
    LET d == SDescend(L.heap, Header, L.level, key, [i \in Levels |-> NULL])
        current == L.heap[d.current].forward[0]
    IN current # NULL /\ L.heap[current].key = key

\* lines 298-305: unlink level by level until a level does not hold the node.
RECURSIVE SUnlink(_, _, _, _, _)
SUnlink(h, update, current, i, top) ==
    IF i > top THEN h
    ELSE IF h[update[i]].forward[i] # current THEN h
    ELSE SUnlink([h EXCEPT ![update[i]].forward[i] = h[current].forward[i]],
                 update, current, i + 1, top)

\* delete_element without the loop of lines 308-310.
NoTrim(h, lvl) == lvl

\* lines 308-310
RECURSIVE STrim(_, _)
STrim(h, lvl) ==
    IF lvl > 0 /\ h[Header].forward[lvl] = NULL THEN STrim(h, lvl - 1) ELSE lvl

\* SkipList::delete_element(key)
delete_element(L, key) ==
    LET d == SDescend(L.heap, Header, L.level, key, [i \in Levels |-> NULL])
        current == L.heap[d.current].forward[0]
    IN IF current # NULL /\ L.heap[current].key = key
       THEN LET h1 == SUnlink(L.heap, d.update, current, 0, L.level)
            IN [heap |-> [h1 EXCEPT ![current] = SNoNode],
                level |-> STrim(h1, L.level),
                count |-> L.count - 1]
       ELSE L

\* The level-i chain from the header, as node ids.
RECURSIVE SWalk(_, _, _, _)
SWalk(h, n, lvl, fuel) ==
    IF n = NULL \/ fuel = 0 THEN <<>>
    ELSE <<n>> \o SWalk(h, h[n].forward[lvl], lvl, fuel - 1)
SChain(L, lvl) == SWalk(L.heap, L.heap[Header].forward[lvl], lvl, Cardinality(SNodeIds))
\* The stored pairs, read along level 0.
Pairs(L) == {<<L.heap[SChain(L, 0)[j]].key, L.heap[SChain(L, 0)[j]].value>> :
                j \in 1..Len(SChain(L, 0))}

\* ------------------------------------------------------------ dump and load
\* operator<<(int): the decimal digits, with a leading '-' below zero.
RECURSIVE NatToString(_)
NatToString(n) ==
    IF n < 10 THEN <<Digits[n + 1]>>
    ELSE NatToString(n \div 10) \o <<Digits[(n % 10) + 1]>>
IntToString(n) == IF n < 0 THEN <<"-">> \o NatToString(0 - n) ELSE NatToString(n)

IsDigit(c) == \E d \in 1..10 : Digits[d] = c
DigitValue(c) == (CHOOSE d \in 1..10 : Digits[d] = c) - 1

\* std::stoi: an optional sign, then the longest run of digits; what follows
\* is ignored; no digit at all throws std::invalid_argument.
RECURSIVE DigitRun(_, _, _)
DigitRun(str, j, acc) ==
    IF j <= Len(str) /\ IsDigit(str[j])
    THEN DigitRun(str, j + 1, 10 * acc + DigitValue(str[j]))
    ELSE [value |-> acc, stop |-> j]
stoi(str) ==
    LET signed == Len(str) > 0 /\ str[1] \in {"-", "+"}
        first == IF signed THEN 2 ELSE 1
        run == DigitRun(str, first, 0)
    IN IF run.stop = first THEN [thrown |-> TRUE, value |-> 0]
       ELSE [thrown |-> FALSE,
             value |-> IF signed /\ str[1] = "-" THEN 0 - run.value ELSE run.value]

\* SkipList::dump_file: one "key:value\n" record per node of level 0.
RECURSIVE DumpFrom(_, _, _)
DumpFrom(h, node, fuel) ==
    IF node = NULL \/ fuel = 0 THEN <<>>
    ELSE IntToString(h[node].key) \o <<delimiter>> \o h[node].value \o <<"\n">>
         \o DumpFrom(h, h[node].forward[0], fuel - 1)
dump_file(L) == DumpFrom(L.heap, L.heap[Header].forward[0], Cardinality(SNodeIds))

\* std::getline over the whole file: the text between newlines; the text
\* after the last newline is a line only when it is not empty.
RECURSIVE GetLines(_, _, _)
GetLines(text, j, line) ==
    IF j > Len(text) THEN (IF line = <<>> THEN <<>> ELSE <<line>>)
    ELSE IF text[j] = "\n" THEN <<line>> \o GetLines(text, j + 1, <<>>)
    ELSE GetLines(text, j + 1, Append(line, text[j]))

\* str.find(delimiter): the first position of ':' (from 1), 0 for npos.
Find(str) ==
    IF \E j \in 1..Len(str) : str[j] = delimiter
    THEN CHOOSE j \in 1..Len(str) : str[j] = delimiter /\ \A m \in 1..(j - 1) : str[m] # delimiter
    ELSE 0

is_valid_string(str) == str # <<>> /\ Find(str) # 0

\* string_to_kv: *key and *value are left as they were on an invalid line.
string_to_kv(str, key, value) ==
    IF ~is_valid_string(str) THEN [key |-> key, value |-> value]
    ELSE [key |-> SubSeq(str, 1, Find(str) - 1),
          value |-> SubSeq(str, Find(str) + 1, Len(str))]

\* SkipList::load_file, line by line; lv[j] is the height insert_element
\* draws for line j.  calls records the insert_element calls made.
RECURSIVE LoadLines(_, _, _, _)
LoadLines(lines, j, lv, st) ==
    IF j > Len(lines) \/ st.thrown THEN st
    ELSE LET kv == string_to_kv(lines[j], st.key, st.value)
             k == stoi(kv.key)
         IN IF kv.key = <<>> \/ kv.value = <<>>
            THEN LoadLines(lines, j + 1, lv, [st EXCEPT !.key = kv.key, !.value = kv.value])
            ELSE IF k.thrown
            THEN [st EXCEPT !.key = kv.key, !.value = kv.value, !.thrown = TRUE]
            ELSE LoadLines(lines, j + 1, lv,
                    [st EXCEPT !.key = kv.key, !.value = kv.value,
                               !.list = insert_element(st.list, k.value, kv.value, lv[j]).list,
                               !.calls = Append(st.calls, <<k.value, kv.value>>)])

load_file(L, text, lv) ==
    LoadLines(GetLines(text, 1, <<>>), 1, lv,
              [list |-> L, key |-> <<>>, value |-> <<>>, calls |-> <<>>, thrown |-> FALSE])

\* ------------------------------------------------------------ SkipList calls
svars == <<slist, file, loaded, phase, last, track>>

NoLoad == [list |-> SkipList(MaxLevel), key |-> <<>>, value |-> <<>>,
           calls |-> <<>>, thrown |-> FALSE]
NoCall == [op |-> "none", ret |-> 0]
NoTrack == [live |-> {}, gone |-> {}, peak |-> 0]

SInit ==
    /\ slist = SkipList(MaxLevel)
    /\ file = <<>>
    /\ loaded = NoLoad
    /\ phase = "ops"
    /\ last = NoCall
    /\ track = NoTrack

SInsert ==
    /\ phase = "ops"
    /\ \E key \in SKeys, value \in SValues, random_level \in get_random_level :
         LET r == insert_element(slist, key, value, random_level) IN
         /\ slist' = r.list
         /\ last' = [op |-> "insert", ret |-> r.ret]
         /\ track' = [track EXCEPT !.live = @ \cup {key},
                                   !.peak = IF r.list.level > @ THEN r.list.level ELSE @]
    /\ UNCHANGED <<file, loaded, phase>>

SDelete ==
    /\ phase = "ops"
    /\ \E key \in SKeys :
         /\ slist' = delete_element(slist, key)
         /\ last' = [op |-> "delete", ret |-> 0]
         /\ track' = [track EXCEPT !.live = @ \ {key},
                                   !.gone = @ \cup (track.live \cap {key})]
    /\ UNCHANGED <<file, loaded, phase>>

SSearch ==
    /\ phase = "ops"
    /\ \E key \in SKeys :
         last' = [op |-> "search", ret |-> IF search_element(slist, key) THEN 1 ELSE 0]
    /\ UNCHANGED <<slist, file, loaded, phase, track>>

\* dump_file() on the list: STORE_FILE is rewritten.
SDump ==
    /\ phase = "ops"
    /\ file' = dump_file(slist)
    /\ phase' = "dumped"
    /\ last' = [op |-> "dump", ret |-> 0]
    /\ UNCHANGED <<slist, loaded, track>>

\* load_file() on a freshly constructed SkipList.
SLoad ==
    /\ phase = "dumped"
    /\ \E lv \in [1..Len(GetLines(file, 1, <<>>)) -> get_random_level] :
         loaded' = load_file(SkipList(MaxLevel), file, lv)
    /\ phase' = "loaded"
    /\ last' = [op |-> "load", ret |-> 0]
    /\ UNCHANGED <<slist, file, track>>

\* ------------------------------------------------------ tSkipList::dump_file
DumpCall(t) ==
    /\ ~crashed /\ pc[t] \in {"idle", "returned"} /\ nops < MaxOps
    /\ loc' = [loc EXCEPT ![t] = [NoLocals EXCEPT !.op = "dump"]]
    /\ Goto(t, "p_open")
    /\ nops' = nops + 1
    /\ UNCHANGED <<heap, _skip_list_level, _element_count, crashed, uaf, dvars>>

\* lines 365-366: _file_mutex, then open() truncates STORE_FILE.
DumpOpen(t) ==
    /\ ~crashed /\ pc[t] = "p_open"
    /\ _file_mutex = NoThread
    /\ _file_mutex' = t
    /\ store_file' = <<>>
    /\ Goto(t, "p_first")
    /\ UNCHANGED <<heap, _skip_list_level, _element_count, loc, crashed, uaf, nops, load>>

\* line 368: _header->forward[0] is read with no lock held and its mutex is
\* reached through the pointer, null or not.
DumpFirst(t) ==
    /\ ~crashed /\ pc[t] = "p_first"
    /\ LET nxt == heap[Header].forward[0]
       IN \E o \in Outcomes(nxt = NULL, FALSE) :
            IF o = "crash" THEN Crash(FALSE) /\ UNCHANGED dvars
            ELSE /\ loc' = [loc EXCEPT ![t].next = nxt]
                 /\ Goto(t, "p_first_lock")
                 /\ UNCHANGED <<heap, _skip_list_level, _element_count, crashed, uaf, nops, dvars>>

\* line 368: the lock on the node read.
DumpFirstLock(t) ==
    /\ ~crashed /\ pc[t] = "p_first_lock"
    /\ LET n == loc[t].next
       IN /\ heap[n].mtx = NoThread \/ Freed(heap, n)
          /\ IF Freed(heap, n) THEN Crash(TRUE) /\ UNCHANGED dvars
             ELSE /\ heap' = Lock(heap, n, t)
                  /\ Goto(t, "p_node")
                  /\ UNCHANGED <<_skip_list_level, _element_count, loc, crashed, uaf, nops, dvars>>

\* lines 369-371: cur_mutex and node are taken from _header->forward[0],
\* read again.
DumpNode(t) ==
    /\ ~crashed /\ pc[t] = "p_node"
    /\ LET n == heap[Header].forward[0]
       IN loc' = [loc EXCEPT ![t].current = n, ![t].cur_mutex = n, ![t].next = NULL]
    /\ Goto(t, "p_while")
    /\ UNCHANGED <<heap, _skip_list_level, _element_count, crashed, uaf, nops, dvars>>

\* lines 373-374: the loop test and the record of the node; lines 384-389
\* when node is null.
DumpWhile(t) ==
    /\ ~crashed /\ pc[t] = "p_while"
    /\ LET l == loc[t]
           node == l.current
       IN IF node = NULL
          THEN LET fr == l.cur_mutex # NULL /\ Freed(heap, l.cur_mutex) IN
               \E o \in Outcomes(l.cur_mutex = NULL, fr) :
                 IF o = "crash" THEN Crash(fr) /\ UNCHANGED dvars
                 ELSE /\ heap' = Unlock(heap, l.cur_mutex)
                      /\ _file_mutex' = NoThread
                      /\ Return(t, 0, 0)
                      /\ uaf' = (uaf \/ fr)
                      /\ UNCHANGED <<_skip_list_level, _element_count, crashed, nops,
                                     store_file, load>>
          ELSE LET fr == Freed(heap, node) IN
               \E o \in Outcomes(FALSE, fr) :
                 IF o = "crash" THEN Crash(fr) /\ UNCHANGED dvars
                 ELSE /\ store_file' = store_file \o IntToString(heap[node].key)
                                          \o <<":">> \o IntToString(heap[node].value)
                                          \o <<"\n">>
                      /\ Goto(t, "p_next")
                      /\ uaf' = (uaf \/ fr)
                      /\ UNCHANGED <<heap, _skip_list_level, _element_count, loc, crashed,
                                     nops, _file_mutex, load>>

\* line 376: node->forward[0]->mtx is reached through the pointer read
\* here, null or not.
DumpNext(t) ==
    /\ ~crashed /\ pc[t] = "p_next"
    /\ LET l == loc[t]
           nxt == heap[l.current].forward[0]
           fr == Freed(heap, l.current)
       IN \E o \in Outcomes(nxt = NULL, fr) :
            IF o = "crash" THEN Crash(fr) /\ UNCHANGED dvars
            ELSE /\ loc' = [loc EXCEPT ![t].next = nxt]
                 /\ Goto(t, "p_next_lock")
                 /\ uaf' = (uaf \/ fr)
                 /\ UNCHANGED <<heap, _skip_list_level, _element_count, crashed, nops, dvars>>

\* line 376: the lock on the successor.
DumpNextLock(t) ==
    /\ ~crashed /\ pc[t] = "p_next_lock"
    /\ LET n == loc[t].next
       IN /\ heap[n].mtx = NoThread \/ Freed(heap, n)
          /\ IF Freed(heap, n) THEN Crash(TRUE) /\ UNCHANGED dvars
             ELSE /\ heap' = Lock(heap, n, t)
                  /\ Goto(t, "p_step")
                  /\ UNCHANGED <<_skip_list_level, _element_count, loc, crashed, uaf, nops, dvars>>

\* lines 378-382: node = node->forward[0], read again; the mutex left
\* behind is unlocked.
DumpStep(t) ==
    /\ ~crashed /\ pc[t] = "p_step"
    /\ LET l == loc[t]
           n == heap[l.current].forward[0]
           fr == Freed(heap, l.current) \/ (l.cur_mutex # NULL /\ Freed(heap, l.cur_mutex))
       IN \E o \in Outcomes(l.cur_mutex = NULL, fr) :
            IF o = "crash" THEN Crash(fr) /\ UNCHANGED dvars
            ELSE /\ heap' = Unlock(heap, l.cur_mutex)
                 /\ loc' = [loc EXCEPT ![t].current = n, ![t].cur_mutex = n, ![t].next = NULL]
                 /\ Goto(t, "p_while")
                 /\ uaf' = (uaf \/ fr)
                 /\ UNCHANGED <<_skip_list_level, _element_count, crashed, nops, dvars>>

\* ------------------------------------------------------------ specifications
hvars == <<pre, abs, completed>>
\* ------------------------------------------------------ tSkipList::load_file
NotLoading == [lines |-> <<>>, j |-> 1, key |-> <<>>, value |-> <<>>, calls |-> <<>>]

\* The value type V of a list load_file is compiled for is constructed from
\* the text of the line; here it is the number the text starts with (0 when
\* it starts with none).
FromText(str) == IF stoi(str).thrown THEN 0 ELSE stoi(str).value

LoadCall(t) ==
    /\ ~crashed /\ pc[t] \in {"idle", "returned"} /\ _file_mutex # t /\ nops < MaxLoads
    /\ loc' = [loc EXCEPT ![t] = [NoLocals EXCEPT !.op = "load"]]
    /\ Goto(t, "l_open")
    /\ nops' = nops + 1
    /\ UNCHANGED <<heap, _skip_list_level, _element_count, crashed, uaf, dvars>>

\* lines 394-398: _file_mutex, open(), and the two empty strings.
LoadOpen(t) ==
    /\ ~crashed /\ pc[t] = "l_open"
    /\ _file_mutex = NoThread
    /\ _file_mutex' = t
    /\ load' = [NotLoading EXCEPT !.lines = GetLines(store_file, 1, <<>>)]
    /\ Goto(t, "l_getline")
    /\ UNCHANGED <<heap, _skip_list_level, _element_count, loc, crashed, uaf, nops,
                   store_file>>

\* lines 399-405: one turn of the loop up to the call of insert_element,
\* whose steps are those of InsLockHeader .. InsDone; a key stoi cannot read
\* throws, and nothing catches it.
LoadLine(t) ==
    /\ ~crashed /\ pc[t] = "l_getline" /\ load.j <= Len(load.lines)
    /\ LET kv == string_to_kv(load.lines[load.j], load.key, load.value)
           k == stoi(kv.key)
       IN IF kv.key = <<>> \/ kv.value = <<>>
          THEN /\ load' = [load EXCEPT !.key = kv.key, !.value = kv.value, !.j = @ + 1]
               /\ UNCHANGED <<pc, loc, crashed, uaf>>
          ELSE IF k.thrown
          THEN /\ crashed' = TRUE
               /\ UNCHANGED <<pc, loc, uaf, load>>
          ELSE /\ load' = [load EXCEPT !.key = kv.key, !.value = kv.value, !.j = @ + 1,
                                       !.calls = Append(@, [line |-> load.j,
                                                            key |-> kv.key,
                                                            value |-> kv.value])]
               /\ \E rl \in get_random_level :
                    loc' = [loc EXCEPT ![t] = [NoLocals EXCEPT !.op = "insert",
                                                !.key = k.value,
                                                !.value = FromText(kv.value),
                                                !.random_level = rl]]
               /\ Goto(t, "i_lock_header")
               /\ UNCHANGED <<crashed, uaf>>
    /\ UNCHANGED <<heap, _skip_list_level, _element_count, nops, _file_mutex, store_file>>

\* insert_element has returned into the loop of line 399.
LoadResume(t) ==
    /\ ~crashed /\ pc[t] = "returned" /\ _file_mutex = t
    /\ loc' = [loc EXCEPT ![t] = [NoLocals EXCEPT !.op = "load"]]
    /\ Goto(t, "l_getline")
    /\ UNCHANGED <<heap, _skip_list_level, _element_count, crashed, uaf, nops, dvars>>

\* lines 407-411: getline fails at the end of the file.
LoadClose(t) ==
    /\ ~crashed /\ pc[t] = "l_getline" /\ load.j > Len(load.lines)
    /\ _file_mutex' = NoThread
    /\ Return(t, 0, 0)
    /\ UNCHANGED <<heap, _skip_list_level, _element_count, crashed, uaf, nops,
                   store_file, load>>

vars == <<tvars, hvars, svars, ovars, dvars>>

Unsettled == [known |-> FALSE, value |-> 0]
NoRace == [on |-> FALSE, key |-> 0, count |-> 0]
OInit ==
    /\ settled = [k \in Keys |-> Unsettled]
    /\ expect = [t \in Threads |-> Unsettled]
    /\ race = NoRace
DInit == _file_mutex = NoThread /\ store_file = <<>> /\ load = NotLoading

Init ==
    /\ TInit /\ pre = NoPre /\ abs = [k \in Keys |-> 0] /\ completed = {} /\ SInit
    /\ OInit /\ DInit

\* Several threads, any interleaving of their steps.
Next ==
    \E t \in Threads :
        \/ InsCall(t) /\ UNCHANGED <<hvars, svars, ovars, dvars>>
        \/ SearchCall(t) /\ UNCHANGED <<hvars, svars, ovars, dvars>>
        \/ DelCall(t) /\ UNCHANGED <<hvars, svars, ovars, dvars>>
        \/ InsLockHeader(t) /\ UNCHANGED <<hvars, svars, ovars, dvars>>
        \/ InsHoldLock(t) /\ UNCHANGED <<hvars, svars, ovars, dvars>>
        \/ InsFor(t) /\ UNCHANGED <<hvars, svars, ovars, dvars>>
        \/ InsWhile(t) /\ UNCHANGED <<hvars, svars, ovars, dvars>>
        \/ InsAdvance(t) /\ UNCHANGED <<hvars, svars, ovars, dvars>>
        \/ InsCheck(t) /\ UNCHANGED <<hvars, svars, ovars, dvars>>
        \/ InsExists(t) /\ UNCHANGED <<hvars, svars, ovars, dvars>>
        \/ InsRaise(t) /\ UNCHANGED <<hvars, svars, ovars, dvars>>
        \/ InsRaiseFill(t) /\ UNCHANGED <<hvars, svars, ovars, dvars>>
        \/ InsSplice(t) /\ UNCHANGED <<hvars, svars, ovars, dvars>>
        \/ InsDone(t) /\ UNCHANGED <<hvars, svars, ovars, dvars>>
        \/ SearchLockHeader(t) /\ UNCHANGED <<hvars, svars, ovars, dvars>>
        \/ SearchFor(t) /\ UNCHANGED <<hvars, svars, ovars, dvars>>
        \/ SearchWhile(t) /\ UNCHANGED <<hvars, svars, ovars, dvars>>
        \/ SearchAdvance(t) /\ UNCHANGED <<hvars, svars, ovars, dvars>>
        \/ SearchRelease(t) /\ UNCHANGED <<hvars, svars, ovars, dvars>>
        \/ SearchFinal(t) /\ UNCHANGED <<hvars, svars, ovars, dvars>>
        \/ SearchFinalLock(t) /\ UNCHANGED <<hvars, svars, ovars, dvars>>
        \/ SearchFinish(t) /\ UNCHANGED <<hvars, svars, ovars, dvars>>
        \/ DelLockHeader(t) /\ UNCHANGED <<hvars, svars, ovars, dvars>>
        \/ DelFor(t) /\ UNCHANGED <<hvars, svars, ovars, dvars>>
        \/ DelWhile(t) /\ UNCHANGED <<hvars, svars, ovars, dvars>>
        \/ DelAdvance(t) /\ UNCHANGED <<hvars, svars, ovars, dvars>>
        \/ DelFinal(t) /\ UNCHANGED <<hvars, svars, ovars, dvars>>
        \/ DelFinalLock(t) /\ UNCHANGED <<hvars, svars, ovars, dvars>>
        \/ DelCheck(t) /\ UNCHANGED <<hvars, svars, ovars, dvars>>
        \/ DelUnlink(t) /\ UNCHANGED <<hvars, svars, ovars, dvars>>
        \/ DelTrim(t) /\ UNCHANGED <<hvars, svars, ovars, dvars>>
        \/ DelTrimDec(t) /\ UNCHANGED <<hvars, svars, ovars, dvars>>
        \/ DelFree(t) /\ UNCHANGED <<hvars, svars, ovars, dvars>>
        \/ DelUnlock(t) /\ UNCHANGED <<hvars, svars, ovars, dvars>>

Spec == Init /\ [][Next]_vars

\* Several threads that also call dump_file.
CallsNext ==
    \E t \in Threads :
        \/ InsCall(t) /\ UNCHANGED <<hvars, svars, ovars, dvars>>
        \/ SearchCall(t) /\ UNCHANGED <<hvars, svars, ovars, dvars>>
        \/ DelCall(t) /\ UNCHANGED <<hvars, svars, ovars, dvars>>
        \/ InsLockHeader(t) /\ UNCHANGED <<hvars, svars, ovars, dvars>>
        \/ InsHoldLock(t) /\ UNCHANGED <<hvars, svars, ovars, dvars>>
        \/ InsFor(t) /\ UNCHANGED <<hvars, svars, ovars, dvars>>
        \/ InsWhile(t) /\ UNCHANGED <<hvars, svars, ovars, dvars>>
        \/ InsAdvance(t) /\ UNCHANGED <<hvars, svars, ovars, dvars>>
        \/ InsCheck(t) /\ UNCHANGED <<hvars, svars, ovars, dvars>>
        \/ InsExists(t) /\ UNCHANGED <<hvars, svars, ovars, dvars>>
        \/ InsRaise(t) /\ UNCHANGED <<hvars, svars, ovars, dvars>>
        \/ InsRaiseFill(t) /\ UNCHANGED <<hvars, svars, ovars, dvars>>
        \/ InsSplice(t) /\ UNCHANGED <<hvars, svars, ovars, dvars>>
        \/ InsDone(t) /\ UNCHANGED <<hvars, svars, ovars, dvars>>
        \/ SearchLockHeader(t) /\ UNCHANGED <<hvars, svars, ovars, dvars>>
        \/ SearchFor(t) /\ UNCHANGED <<hvars, svars, ovars, dvars>>
        \/ SearchWhile(t) /\ UNCHANGED <<hvars, svars, ovars, dvars>>
        \/ SearchAdvance(t) /\ UNCHANGED <<hvars, svars, ovars, dvars>>
        \/ SearchRelease(t) /\ UNCHANGED <<hvars, svars, ovars, dvars>>
        \/ SearchFinal(t) /\ UNCHANGED <<hvars, svars, ovars, dvars>>
        \/ SearchFinalLock(t) /\ UNCHANGED <<hvars, svars, ovars, dvars>>
        \/ SearchFinish(t) /\ UNCHANGED <<hvars, svars, ovars, dvars>>
        \/ DelLockHeader(t) /\ UNCHANGED <<hvars, svars, ovars, dvars>>
        \/ DelFor(t) /\ UNCHANGED <<hvars, svars, ovars, dvars>>
        \/ DelWhile(t) /\ UNCHANGED <<hvars, svars, ovars, dvars>>
        \/ DelAdvance(t) /\ UNCHANGED <<hvars, svars, ovars, dvars>>
        \/ DelFinal(t) /\ UNCHANGED <<hvars, svars, ovars, dvars>>
        \/ DelFinalLock(t) /\ UNCHANGED <<hvars, svars, ovars, dvars>>
        \/ DelCheck(t) /\ UNCHANGED <<hvars, svars, ovars, dvars>>
        \/ DelUnlink(t) /\ UNCHANGED <<hvars, svars, ovars, dvars>>
        \/ DelTrim(t) /\ UNCHANGED <<hvars, svars, ovars, dvars>>
        \/ DelTrimDec(t) /\ UNCHANGED <<hvars, svars, ovars, dvars>>
        \/ DelFree(t) /\ UNCHANGED <<hvars, svars, ovars, dvars>>
        \/ DelUnlock(t) /\ UNCHANGED <<hvars, svars, ovars, dvars>>
        \/ DumpCall(t) /\ UNCHANGED <<hvars, svars, ovars>>
        \/ DumpOpen(t) /\ UNCHANGED <<hvars, svars, ovars>>
        \/ DumpFirst(t) /\ UNCHANGED <<hvars, svars, ovars>>
        \/ DumpFirstLock(t) /\ UNCHANGED <<hvars, svars, ovars>>
        \/ DumpNode(t) /\ UNCHANGED <<hvars, svars, ovars>>
        \/ DumpWhile(t) /\ UNCHANGED <<hvars, svars, ovars>>
        \/ DumpNext(t) /\ UNCHANGED <<hvars, svars, ovars>>
        \/ DumpNextLock(t) /\ UNCHANGED <<hvars, svars, ovars>>
        \/ DumpStep(t) /\ UNCHANGED <<hvars, svars, ovars>>
SpecDump == Init /\ [][CallsNext]_vars

\* A workload of insertions and deletions only, two calls longer: every
\* insert_element has the key MaxLevel, so that every node has room for all
\* levels, and values from MaxLevel on, which are the keys the nodes store
\* (line 247); delete_element is called with the larger ones.  No stored key is
\* below the inserted one, so the advance of lines 204-213 is not part of
\* these runs.
RaceKeys == {MaxLevel}
RaceValues == MaxLevel..(MaxValue + 2)
RaceOps == MaxOps + 2
RaceNext ==
    \E t \in Threads :
        \/ InsCallOf(t, RaceKeys, RaceValues, RaceOps) /\ UNCHANGED <<hvars, svars, ovars, dvars>>
        \/ DelCallOf(t, RaceValues \ RaceKeys, RaceOps) /\ UNCHANGED <<hvars, svars, ovars, dvars>>
        \/ InsLockHeader(t) /\ UNCHANGED <<hvars, svars, ovars, dvars>>
        \/ InsHoldLock(t) /\ UNCHANGED <<hvars, svars, ovars, dvars>>
        \/ InsFor(t) /\ UNCHANGED <<hvars, svars, ovars, dvars>>
        \/ InsWhile(t) /\ UNCHANGED <<hvars, svars, ovars, dvars>>
        \/ InsCheck(t) /\ UNCHANGED <<hvars, svars, ovars, dvars>>
        \/ InsExists(t) /\ UNCHANGED <<hvars, svars, ovars, dvars>>
        \/ InsRaise(t) /\ UNCHANGED <<hvars, svars, ovars, dvars>>
        \/ InsRaiseFill(t) /\ UNCHANGED <<hvars, svars, ovars, dvars>>
        \/ InsSplice(t) /\ UNCHANGED <<hvars, svars, ovars, dvars>>
        \/ InsDone(t) /\ UNCHANGED <<hvars, svars, ovars, dvars>>
        \/ DelLockHeader(t) /\ UNCHANGED <<hvars, svars, ovars, dvars>>
        \/ DelFor(t) /\ UNCHANGED <<hvars, svars, ovars, dvars>>
        \/ DelWhile(t) /\ UNCHANGED <<hvars, svars, ovars, dvars>>
        \/ DelAdvance(t) /\ UNCHANGED <<hvars, svars, ovars, dvars>>
        \/ DelFinal(t) /\ UNCHANGED <<hvars, svars, ovars, dvars>>
        \/ DelFinalLock(t) /\ UNCHANGED <<hvars, svars, ovars, dvars>>
        \/ DelCheck(t) /\ UNCHANGED <<hvars, svars, ovars, dvars>>
        \/ DelUnlink(t) /\ UNCHANGED <<hvars, svars, ovars, dvars>>
        \/ DelTrim(t) /\ UNCHANGED <<hvars, svars, ovars, dvars>>
        \/ DelTrimDec(t) /\ UNCHANGED <<hvars, svars, ovars, dvars>>
        \/ DelFree(t) /\ UNCHANGED <<hvars, svars, ovars, dvars>>
        \/ DelUnlock(t) /\ UNCHANGED <<hvars, svars, ovars, dvars>>
RaceInit == Init /\ heap[Header].node_level = MaxLevel
SpecRace == RaceInit /\ [][RaceNext]_vars

\* A workload of the same length in which a descent advances: every
\* insert_element has the key MaxLevel and a value that is smaller or larger,
\* which is the key the node stores (line 247), and delete_element is called
\* with the largest of these values.  No stored key equals the inserted one,
\* so the return of lines 223-230 is not part of these runs.  One thread
\* makes the insertions, the others the deletions.
ChaseKeys == {MaxLevel}
ChaseValues == {MaxLevel - 1} \cup ((MaxLevel + 1)..(MaxValue + 2))
ChaseDeleted == {MaxValue + 2}
Inserter == CHOOSE t \in Threads : \A u \in Threads : t <= u
ChaseNext ==
    \E t \in Threads :
        \/ t = Inserter /\ InsCallOf(t, ChaseKeys, ChaseValues, RaceOps) /\ UNCHANGED <<hvars, svars, ovars, dvars>>
        \/ t # Inserter /\ DelCallOf(t, ChaseDeleted, RaceOps) /\ UNCHANGED <<hvars, svars, ovars, dvars>>
        \/ InsLockHeader(t) /\ UNCHANGED <<hvars, svars, ovars, dvars>>
        \/ InsHoldLock(t) /\ UNCHANGED <<hvars, svars, ovars, dvars>>
        \/ InsFor(t) /\ UNCHANGED <<hvars, svars, ovars, dvars>>
        \/ InsWhile(t) /\ UNCHANGED <<hvars, svars, ovars, dvars>>
        \/ InsAdvance(t) /\ UNCHANGED <<hvars, svars, ovars, dvars>>
        \/ InsCheck(t) /\ UNCHANGED <<hvars, svars, ovars, dvars>>
        \/ InsRaise(t) /\ UNCHANGED <<hvars, svars, ovars, dvars>>
        \/ InsRaiseFill(t) /\ UNCHANGED <<hvars, svars, ovars, dvars>>
        \/ InsSplice(t) /\ UNCHANGED <<hvars, svars, ovars, dvars>>
        \/ InsDone(t) /\ UNCHANGED <<hvars, svars, ovars, dvars>>
        \/ DelLockHeader(t) /\ UNCHANGED <<hvars, svars, ovars, dvars>>
        \/ DelFor(t) /\ UNCHANGED <<hvars, svars, ovars, dvars>>
        \/ DelWhile(t) /\ UNCHANGED <<hvars, svars, ovars, dvars>>
        \/ DelAdvance(t) /\ UNCHANGED <<hvars, svars, ovars, dvars>>
        \/ DelFinal(t) /\ UNCHANGED <<hvars, svars, ovars, dvars>>
        \/ DelFinalLock(t) /\ UNCHANGED <<hvars, svars, ovars, dvars>>
        \/ DelCheck(t) /\ UNCHANGED <<hvars, svars, ovars, dvars>>
        \/ DelUnlink(t) /\ UNCHANGED <<hvars, svars, ovars, dvars>>
        \/ DelTrim(t) /\ UNCHANGED <<hvars, svars, ovars, dvars>>
        \/ DelTrimDec(t) /\ UNCHANGED <<hvars, svars, ovars, dvars>>
        \/ DelFree(t) /\ UNCHANGED <<hvars, svars, ovars, dvars>>
        \/ DelUnlock(t) /\ UNCHANGED <<hvars, svars, ovars, dvars>>
SpecChase == RaceInit /\ [][ChaseNext]_vars

\* load_file on a list just constructed, over a STORE_FILE of up to MaxLines
\* lines written before the program started: an empty line, a line with no
\* ':', well-formed lines, and a line with nothing after the ':'.
LoadLineSet == {<<>>, <<"a">>, <<"2", delimiter, "1">>, <<"3", delimiter, "2">>,
                <<"2", delimiter>>}
RECURSIVE TextOf(_)
TextOf(ls) == IF ls = <<>> THEN <<>> ELSE Head(ls) \o <<"\n">> \o TextOf(Tail(ls))
LoadTexts == {TextOf(ls) : ls \in UNION {[1..n -> LoadLineSet] : n \in 0..MaxLines}}
LoadNext ==
    \E t \in Threads :
        \/ LoadCall(t) /\ UNCHANGED <<hvars, svars, ovars>>
        \/ LoadOpen(t) /\ UNCHANGED <<hvars, svars, ovars>>
        \/ LoadLine(t) /\ UNCHANGED <<hvars, svars, ovars>>
        \/ LoadResume(t) /\ UNCHANGED <<hvars, svars, ovars>>
        \/ LoadClose(t) /\ UNCHANGED <<hvars, svars, ovars>>
        \/ InsLockHeader(t) /\ UNCHANGED <<hvars, svars, ovars, dvars>>
        \/ InsHoldLock(t) /\ UNCHANGED <<hvars, svars, ovars, dvars>>
        \/ InsFor(t) /\ UNCHANGED <<hvars, svars, ovars, dvars>>
        \/ InsWhile(t) /\ UNCHANGED <<hvars, svars, ovars, dvars>>
        \/ InsAdvance(t) /\ UNCHANGED <<hvars, svars, ovars, dvars>>
        \/ InsCheck(t) /\ UNCHANGED <<hvars, svars, ovars, dvars>>
        \/ InsExists(t) /\ UNCHANGED <<hvars, svars, ovars, dvars>>
        \/ InsRaise(t) /\ UNCHANGED <<hvars, svars, ovars, dvars>>
        \/ InsRaiseFill(t) /\ UNCHANGED <<hvars, svars, ovars, dvars>>
        \/ InsSplice(t) /\ UNCHANGED <<hvars, svars, ovars, dvars>>
        \/ InsDone(t) /\ UNCHANGED <<hvars, svars, ovars, dvars>>
LoadInit ==
    /\ TInit /\ pre = NoPre /\ abs = [k \in Keys |-> 0] /\ completed = {} /\ SInit
    /\ OInit
    /\ _file_mutex = NoThread /\ load = NotLoading
    /\ store_file \in LoadTexts
SpecLoad == LoadInit /\ [][LoadNext]_vars

\* A step of a call thread t has started.
Step(t) ==
    \/ InsLockHeader(t)
    \/ InsHoldLock(t)
    \/ InsFor(t)
    \/ InsWhile(t)
    \/ InsAdvance(t)
    \/ InsCheck(t)
    \/ InsExists(t)
    \/ InsRaise(t)
    \/ InsRaiseFill(t)
    \/ InsSplice(t)
    \/ InsDone(t)
    \/ SearchLockHeader(t)
    \/ SearchFor(t)
    \/ SearchWhile(t)
    \/ SearchAdvance(t)
    \/ SearchRelease(t)
    \/ SearchFinal(t)
    \/ SearchFinalLock(t)
    \/ SearchFinish(t)
    \/ DelLockHeader(t)
    \/ DelFor(t)
    \/ DelWhile(t)
    \/ DelAdvance(t)
    \/ DelFinal(t)
    \/ DelFinalLock(t)
    \/ DelCheck(t)
    \/ DelUnlink(t)
    \/ DelTrim(t)
    \/ DelTrimDec(t)
    \/ DelFree(t)
    \/ DelUnlock(t)

\* The scheduler lets every thread that can take a step take one.
FairSpec == Spec /\ \A t \in Threads : WF_vars(Step(t) /\ UNCHANGED <<hvars, svars, ovars, dvars>>)

\* One thread: the calls run one after the other.
Caller == CHOOSE t \in Threads : \A u \in Threads : t <= u

History(t) ==
    /\ pre' = IF pc[t] \in {"idle", "returned"} /\ pc'[t] \notin {"idle", "returned"}
              THEN Snapshot(t) ELSE pre
    /\ abs' = IF pc[t] # "returned" /\ pc'[t] = "returned"
              THEN IF loc'[t].op = "insert" /\ loc'[t].ret = 0
                   THEN [abs EXCEPT ![loc'[t].key] = loc'[t].value]
                   ELSE IF loc'[t].op = "delete"
                        THEN [abs EXCEPT ![loc'[t].key] = 0]
                        ELSE abs
              ELSE abs

SeqNext ==
    \E t \in {Caller} :
        \/ InsCall(t) /\ History(t) /\ UNCHANGED <<completed, svars, ovars, dvars>>
        \/ SearchCall(t) /\ History(t) /\ UNCHANGED <<completed, svars, ovars, dvars>>
        \/ DelCall(t) /\ History(t) /\ UNCHANGED <<completed, svars, ovars, dvars>>
        \/ InsLockHeader(t) /\ History(t) /\ UNCHANGED <<completed, svars, ovars, dvars>>
        \/ InsHoldLock(t) /\ History(t) /\ UNCHANGED <<completed, svars, ovars, dvars>>
        \/ InsFor(t) /\ History(t) /\ UNCHANGED <<completed, svars, ovars, dvars>>
        \/ InsWhile(t) /\ History(t) /\ UNCHANGED <<completed, svars, ovars, dvars>>
        \/ InsAdvance(t) /\ History(t) /\ UNCHANGED <<completed, svars, ovars, dvars>>
        \/ InsCheck(t) /\ History(t) /\ UNCHANGED <<completed, svars, ovars, dvars>>
        \/ InsExists(t) /\ History(t) /\ UNCHANGED <<completed, svars, ovars, dvars>>
        \/ InsRaise(t) /\ History(t) /\ UNCHANGED <<completed, svars, ovars, dvars>>
        \/ InsRaiseFill(t) /\ History(t) /\ UNCHANGED <<completed, svars, ovars, dvars>>
        \/ InsSplice(t) /\ History(t) /\ UNCHANGED <<completed, svars, ovars, dvars>>
        \/ InsDone(t) /\ History(t) /\ UNCHANGED <<completed, svars, ovars, dvars>>
        \/ SearchLockHeader(t) /\ History(t) /\ UNCHANGED <<completed, svars, ovars, dvars>>
        \/ SearchFor(t) /\ History(t) /\ UNCHANGED <<completed, svars, ovars, dvars>>
        \/ SearchWhile(t) /\ History(t) /\ UNCHANGED <<completed, svars, ovars, dvars>>
        \/ SearchAdvance(t) /\ History(t) /\ UNCHANGED <<completed, svars, ovars, dvars>>
        \/ SearchRelease(t) /\ History(t) /\ UNCHANGED <<completed, svars, ovars, dvars>>
        \/ SearchFinal(t) /\ History(t) /\ UNCHANGED <<completed, svars, ovars, dvars>>
        \/ SearchFinalLock(t) /\ History(t) /\ UNCHANGED <<completed, svars, ovars, dvars>>
        \/ SearchFinish(t) /\ History(t) /\ UNCHANGED <<completed, svars, ovars, dvars>>
        \/ DelLockHeader(t) /\ History(t) /\ UNCHANGED <<completed, svars, ovars, dvars>>
        \/ DelFor(t) /\ History(t) /\ UNCHANGED <<completed, svars, ovars, dvars>>
        \/ DelWhile(t) /\ History(t) /\ UNCHANGED <<completed, svars, ovars, dvars>>
        \/ DelAdvance(t) /\ History(t) /\ UNCHANGED <<completed, svars, ovars, dvars>>
        \/ DelFinal(t) /\ History(t) /\ UNCHANGED <<completed, svars, ovars, dvars>>
        \/ DelFinalLock(t) /\ History(t) /\ UNCHANGED <<completed, svars, ovars, dvars>>
        \/ DelCheck(t) /\ History(t) /\ UNCHANGED <<completed, svars, ovars, dvars>>
        \/ DelUnlink(t) /\ History(t) /\ UNCHANGED <<completed, svars, ovars, dvars>>
        \/ DelTrim(t) /\ History(t) /\ UNCHANGED <<completed, svars, ovars, dvars>>
        \/ DelTrimDec(t) /\ History(t) /\ UNCHANGED <<completed, svars, ovars, dvars>>
        \/ DelFree(t) /\ History(t) /\ UNCHANGED <<completed, svars, ovars, dvars>>
        \/ DelUnlock(t) /\ History(t) /\ UNCHANGED <<completed, svars, ovars, dvars>>

SpecSeq == Init /\ [][SeqNext]_vars

\* The insert_element and delete_element calls that have returned, as
\* <<operation, key>> pairs.
Completes(t) ==
    completed' = IF pc'[t] = "returned" /\ pc[t] # "returned"
                    /\ loc[t].op \in {"insert", "delete"}
                 THEN completed \cup {<<loc[t].op, loc[t].key>>}
                 ELSE completed

\* Several threads, with the record of the completed calls.
HistNext ==
    \E t \in Threads :
        \/ InsCall(t) /\ Completes(t) /\ UNCHANGED <<pre, abs, svars, ovars, dvars>>
        \/ SearchCall(t) /\ Completes(t) /\ UNCHANGED <<pre, abs, svars, ovars, dvars>>
        \/ DelCall(t) /\ Completes(t) /\ UNCHANGED <<pre, abs, svars, ovars, dvars>>
        \/ InsLockHeader(t) /\ Completes(t) /\ UNCHANGED <<pre, abs, svars, ovars, dvars>>
        \/ InsHoldLock(t) /\ Completes(t) /\ UNCHANGED <<pre, abs, svars, ovars, dvars>>
        \/ InsFor(t) /\ Completes(t) /\ UNCHANGED <<pre, abs, svars, ovars, dvars>>
        \/ InsWhile(t) /\ Completes(t) /\ UNCHANGED <<pre, abs, svars, ovars, dvars>>
        \/ InsAdvance(t) /\ Completes(t) /\ UNCHANGED <<pre, abs, svars, ovars, dvars>>
        \/ InsCheck(t) /\ Completes(t) /\ UNCHANGED <<pre, abs, svars, ovars, dvars>>
        \/ InsExists(t) /\ Completes(t) /\ UNCHANGED <<pre, abs, svars, ovars, dvars>>
        \/ InsRaise(t) /\ Completes(t) /\ UNCHANGED <<pre, abs, svars, ovars, dvars>>
        \/ InsRaiseFill(t) /\ Completes(t) /\ UNCHANGED <<pre, abs, svars, ovars, dvars>>
        \/ InsSplice(t) /\ Completes(t) /\ UNCHANGED <<pre, abs, svars, ovars, dvars>>
        \/ InsDone(t) /\ Completes(t) /\ UNCHANGED <<pre, abs, svars, ovars, dvars>>
        \/ SearchLockHeader(t) /\ Completes(t) /\ UNCHANGED <<pre, abs, svars, ovars, dvars>>
        \/ SearchFor(t) /\ Completes(t) /\ UNCHANGED <<pre, abs, svars, ovars, dvars>>
        \/ SearchWhile(t) /\ Completes(t) /\ UNCHANGED <<pre, abs, svars, ovars, dvars>>
        \/ SearchAdvance(t) /\ Completes(t) /\ UNCHANGED <<pre, abs, svars, ovars, dvars>>
        \/ SearchRelease(t) /\ Completes(t) /\ UNCHANGED <<pre, abs, svars, ovars, dvars>>
        \/ SearchFinal(t) /\ Completes(t) /\ UNCHANGED <<pre, abs, svars, ovars, dvars>>
        \/ SearchFinalLock(t) /\ Completes(t) /\ UNCHANGED <<pre, abs, svars, ovars, dvars>>
        \/ SearchFinish(t) /\ Completes(t) /\ UNCHANGED <<pre, abs, svars, ovars, dvars>>
        \/ DelLockHeader(t) /\ Completes(t) /\ UNCHANGED <<pre, abs, svars, ovars, dvars>>
        \/ DelFor(t) /\ Completes(t) /\ UNCHANGED <<pre, abs, svars, ovars, dvars>>
        \/ DelWhile(t) /\ Completes(t) /\ UNCHANGED <<pre, abs, svars, ovars, dvars>>
        \/ DelAdvance(t) /\ Completes(t) /\ UNCHANGED <<pre, abs, svars, ovars, dvars>>
        \/ DelFinal(t) /\ Completes(t) /\ UNCHANGED <<pre, abs, svars, ovars, dvars>>
        \/ DelFinalLock(t) /\ Completes(t) /\ UNCHANGED <<pre, abs, svars, ovars, dvars>>
        \/ DelCheck(t) /\ Completes(t) /\ UNCHANGED <<pre, abs, svars, ovars, dvars>>
        \/ DelUnlink(t) /\ Completes(t) /\ UNCHANGED <<pre, abs, svars, ovars, dvars>>
        \/ DelTrim(t) /\ Completes(t) /\ UNCHANGED <<pre, abs, svars, ovars, dvars>>
        \/ DelTrimDec(t) /\ Completes(t) /\ UNCHANGED <<pre, abs, svars, ovars, dvars>>
        \/ DelFree(t) /\ Completes(t) /\ UNCHANGED <<pre, abs, svars, ovars, dvars>>
        \/ DelUnlock(t) /\ Completes(t) /\ UNCHANGED <<pre, abs, svars, ovars, dvars>>
SpecHist == Init /\ [][HistNext]_vars

\* ------------------------------------------------ what callers may rely on
Invoked(t) == pc[t] \in {"idle", "returned"} /\ pc'[t] \notin {"idle", "returned"}
Returns(t) == pc[t] # "returned" /\ pc'[t] = "returned"
Pending(u, op, k) ==
    pc[u] \notin {"idle", "returned"} /\ loc[u].op = op /\ loc[u].key = k

\* A call of insert_element(k, .) ends what a returned delete_element(k)
\* promised, a call of delete_element(k) ends what a returned
\* insert_element(k, v) promised; a returned call promises something only
\* when no opposite call of the same key is still running.
Voids(op, e) ==
    e.known /\ ((op = "insert" /\ e.value = 0) \/ (op = "delete" /\ e.value # 0))

Observe(t) ==
    LET op == loc'[t].op
        k == loc'[t].key
    IN IF Invoked(t)
       THEN /\ settled' = IF op \in {"insert", "delete"} /\ Voids(op, settled[k])
                           THEN [settled EXCEPT ![k] = Unsettled] ELSE settled
            /\ expect' = [u \in Threads |->
                            IF u = t
                            THEN IF op = "search" THEN settled[k] ELSE Unsettled
                            ELSE IF Pending(u, "search", k) /\ Voids(op, expect[u])
                                 THEN Unsettled ELSE expect[u]]
            /\ race' = IF op = "delete"
                           /\ \E u \in Threads \ {t} : Pending(u, "delete", k)
                           /\ Cardinality({n \in ChainNodes(heap, 0) : heap[n].key = k}) = 1
                        THEN [on |-> TRUE, key |-> k, count |-> _element_count]
                        ELSE NoRace
       ELSE IF Returns(t)
       THEN /\ settled' =
                 IF op = "insert" /\ loc'[t].ret = 0
                    /\ ~\E u \in Threads \ {t} : Pending(u, "delete", k)
                 THEN [settled EXCEPT ![k] = [known |-> TRUE, value |-> loc'[t].value]]
                 ELSE IF op = "delete"
                         /\ ~\E u \in Threads \ {t} : Pending(u, "insert", k)
                      THEN [settled EXCEPT ![k] = [known |-> TRUE, value |-> 0]]
                      ELSE settled
            /\ UNCHANGED <<expect, race>>
       ELSE UNCHANGED <<settled, expect, race>>

\* Several threads, with what their callers may rely on.
ObsNext ==
    \E t \in Threads :
        \/ InsCall(t) /\ Observe(t) /\ UNCHANGED <<hvars, svars, dvars>>
        \/ SearchCall(t) /\ Observe(t) /\ UNCHANGED <<hvars, svars, dvars>>
        \/ DelCall(t) /\ Observe(t) /\ UNCHANGED <<hvars, svars, dvars>>
        \/ InsLockHeader(t) /\ Observe(t) /\ UNCHANGED <<hvars, svars, dvars>>
        \/ InsHoldLock(t) /\ Observe(t) /\ UNCHANGED <<hvars, svars, dvars>>
        \/ InsFor(t) /\ Observe(t) /\ UNCHANGED <<hvars, svars, dvars>>
        \/ InsWhile(t) /\ Observe(t) /\ UNCHANGED <<hvars, svars, dvars>>
        \/ InsAdvance(t) /\ Observe(t) /\ UNCHANGED <<hvars, svars, dvars>>
        \/ InsCheck(t) /\ Observe(t) /\ UNCHANGED <<hvars, svars, dvars>>
        \/ InsExists(t) /\ Observe(t) /\ UNCHANGED <<hvars, svars, dvars>>
        \/ InsRaise(t) /\ Observe(t) /\ UNCHANGED <<hvars, svars, dvars>>
        \/ InsRaiseFill(t) /\ Observe(t) /\ UNCHANGED <<hvars, svars, dvars>>
        \/ InsSplice(t) /\ Observe(t) /\ UNCHANGED <<hvars, svars, dvars>>
        \/ InsDone(t) /\ Observe(t) /\ UNCHANGED <<hvars, svars, dvars>>
        \/ SearchLockHeader(t) /\ Observe(t) /\ UNCHANGED <<hvars, svars, dvars>>
        \/ SearchFor(t) /\ Observe(t) /\ UNCHANGED <<hvars, svars, dvars>>
        \/ SearchWhile(t) /\ Observe(t) /\ UNCHANGED <<hvars, svars, dvars>>
        \/ SearchAdvance(t) /\ Observe(t) /\ UNCHANGED <<hvars, svars, dvars>>
        \/ SearchRelease(t) /\ Observe(t) /\ UNCHANGED <<hvars, svars, dvars>>
        \/ SearchFinal(t) /\ Observe(t) /\ UNCHANGED <<hvars, svars, dvars>>
        \/ SearchFinalLock(t) /\ Observe(t) /\ UNCHANGED <<hvars, svars, dvars>>
        \/ SearchFinish(t) /\ Observe(t) /\ UNCHANGED <<hvars, svars, dvars>>
        \/ DelLockHeader(t) /\ Observe(t) /\ UNCHANGED <<hvars, svars, dvars>>
        \/ DelFor(t) /\ Observe(t) /\ UNCHANGED <<hvars, svars, dvars>>
        \/ DelWhile(t) /\ Observe(t) /\ UNCHANGED <<hvars, svars, dvars>>
        \/ DelAdvance(t) /\ Observe(t) /\ UNCHANGED <<hvars, svars, dvars>>
        \/ DelFinal(t) /\ Observe(t) /\ UNCHANGED <<hvars, svars, dvars>>
        \/ DelFinalLock(t) /\ Observe(t) /\ UNCHANGED <<hvars, svars, dvars>>
        \/ DelCheck(t) /\ Observe(t) /\ UNCHANGED <<hvars, svars, dvars>>
        \/ DelUnlink(t) /\ Observe(t) /\ UNCHANGED <<hvars, svars, dvars>>
        \/ DelTrim(t) /\ Observe(t) /\ UNCHANGED <<hvars, svars, dvars>>
        \/ DelTrimDec(t) /\ Observe(t) /\ UNCHANGED <<hvars, svars, dvars>>
        \/ DelFree(t) /\ Observe(t) /\ UNCHANGED <<hvars, svars, dvars>>
        \/ DelUnlock(t) /\ Observe(t) /\ UNCHANGED <<hvars, svars, dvars>>
SpecObs == Init /\ [][ObsNext]_vars

\* The single-threaded SkipList: calls in any order, then a dump, then a
\* load into a fresh list.
ListNext ==
    \/ SInsert /\ UNCHANGED <<tvars, hvars, ovars, dvars>>
    \/ SDelete /\ UNCHANGED <<tvars, hvars, ovars, dvars>>
    \/ SSearch /\ UNCHANGED <<tvars, hvars, ovars, dvars>>
    \/ SDump /\ UNCHANGED <<tvars, hvars, ovars, dvars>>
    \/ SLoad /\ UNCHANGED <<tvars, hvars, ovars, dvars>>
ListInit == Init /\ heap[Header].node_level = MaxLevel
SpecList == ListInit /\ [][ListNext]_vars

\* ------------------------------------------------------------------ claims
\* Every node, the header included, was allocated with room for every level
\* the list may use, so that no access of the run is out of bounds.  The
\* claims about single calls are stated for these runs: what refutes them
\* there is the call's own code, not the allocation of the nodes.
WellSized == \A n \in NodeIds : heap[n].st # "none" => heap[n].node_level >= MaxLevel

InCall(t, op) == pc[t] # "idle" /\ loc[t].op = op
Returned(t, op) == pc[t] = "returned" /\ loc[t].op = op

\* C1: with one caller, a key whose last successful insert_element(k, v) was
\* not followed by delete_element(k) is found by search_element(k, out),
\* which returns true with out = v.
C1_SearchFindsInserted ==
    WellSized => \A t \in Threads :
        (InCall(t, "search") /\ abs[loc[t].key] # 0) =>
            /\ ~crashed
            /\ pc[t] = "returned" =>
                   loc[t].found = TRUE /\ loc[t].value_out = abs[loc[t].key]

\* C2: search_element(k, out) on a list that does not hold k returns false
\* and leaves the caller without any node lock (empty list, k above every
\* key, k below some key, k inserted and deleted).
C2_SearchAbsentReturnsFalse ==
    WellSized => \A t \in Threads :
        (InCall(t, "search") /\ loc[t].key \notin pre.keys) =>
            /\ ~crashed
            /\ pc[t] = "returned" =>
                   loc[t].found = FALSE /\ LocksHeldBy(heap, t) = {}

\* C3: insert_element(k, v2) on a list that holds k returns 1 and leaves the
\* stored value, the element count, the list level and every forward
\* pointer as they were, for every height drawn.
C3_InsertExistingChangesNothing ==
    WellSized => \A t \in Threads :
        (InCall(t, "insert") /\ loc[t].key \in pre.keys) =>
            /\ ~crashed
            /\ pc[t] = "returned" =>
                   /\ loc[t].ret = 1
                   /\ StoredValues(heap, loc[t].key) = pre.values[loc[t].key]
                   /\ _element_count = pre.count
                   /\ _skip_list_level = pre.level
                   /\ Forwards(heap) = pre.forwards

\* C4: delete_element(k) on a list that does not hold k returns and leaves
\* the keys, the values, the element count and the list level as they were.
C4_DeleteAbsentChangesNothing ==
    WellSized => \A t \in Threads :
        (InCall(t, "delete") /\ loc[t].key \notin pre.keys) =>
            /\ ~crashed
            /\ pc[t] = "returned" =>
                   /\ StoredKeys(heap) = pre.keys
                   /\ \A k \in Keys : StoredValues(heap, k) = pre.values[k]
                   /\ _element_count = pre.count
                   /\ _skip_list_level = pre.level

\* C5: with one caller, delete_element(k) with k stored removes exactly k:
\* size() is one less, every other key keeps its value and is still found,
\* and search_element(k) then returns false.
C5_DeleteRemovesExactlyK ==
    WellSized => \A t \in Threads :
        /\ (InCall(t, "delete") /\ loc[t].key \in pre.keys) =>
              /\ ~crashed
              /\ pc[t] = "returned" =>
                     /\ StoredKeys(heap) = pre.keys \ {loc[t].key}
                     /\ \A k \in StoredKeys(heap) : StoredValues(heap, k) = pre.values[k]
                     /\ size = pre.count - 1
        /\ (InCall(t, "search") /\ pre.deleted # 0) =>
              /\ ~crashed
              /\ pc[t] = "returned" =>
                     IF loc[t].key \in pre.keys
                     THEN loc[t].found = TRUE /\ loc[t].value_out \in pre.values[loc[t].key]
                     ELSE loc[t].found = FALSE

\* ----------------------------------------------------------------- SkipList
KeysAt(L, i) == [j \in 1..Len(SChain(L, i)) |-> L.heap[SChain(L, i)[j]].key]
StrictlyIncreasing(ks) == \A j \in 1..(Len(ks) - 1) : ks[j] < ks[j + 1]

\* C6: in the single-threaded SkipList, after every insert_element and
\* delete_element the keys along _header->forward[i] are strictly increasing
\* at every level i in 0.._max_level, so no key is stored twice.
C6_StrictlyIncreasingKeys ==
    \A i \in 0..MaxLevel : StrictlyIncreasing(KeysAt(slist, i))

\* An insert_element of a stored key has just returned 1 on a list with two
\* nodes on an upper level.
C6_Witness ==
    /\ last = [op |-> "insert", ret |-> 1]
    /\ Len(SChain(slist, 1)) >= 2

\* C10: dump_file on a list, then load_file into a freshly constructed
\* SkipList, gives a list holding exactly the key/value pairs of the first.
C10_DumpLoadRoundTrip ==
    phase = "loaded" => ~loaded.thrown /\ Pairs(loaded.list) = Pairs(slist)

\* ---------------------------------------------------------------- tSkipList
\* No forward slot beyond a node's own array is in use.
InBounds ==
    \A n \in NodeIds : \A i \in Levels :
        (heap[n].st # "none" /\ i > heap[n].node_level) =>
            /\ heap[n].forward[i] = NULL
            /\ \A m \in NodeIds : heap[m].st = "none" \/ heap[m].forward[i] # n

Quiescent == ~crashed /\ \A t \in Threads : pc[t] \in {"idle", "returned"}

SerialKeySets ==
    {S \in SUBSET Keys :
        \A k \in Keys :
            /\ (<<"insert", k>> \in completed /\ <<"delete", k>> \notin completed) => k \in S
            /\ k \in S => <<"insert", k>> \in completed}

\* C8: once all calls of a concurrent execution have returned, the keys on
\* level 0 are the key set of some serial order of the completed calls.
C8_KeysOfSomeSerialOrder ==
    (InBounds /\ Quiescent) => StoredKeys(heap) \in SerialKeySets

Running(t) == pc[t] \notin {"idle", "returned"}

\* C9: under fair scheduling every call that was started returns.
C9_EveryCallReturns ==
    \A t \in Threads : Running(t) ~> (pc[t] = "returned" \/ crashed \/ ~InBounds)

\* A running call cannot take a step: it is waiting for a node lock.
Waiting(t) == Running(t) /\ ~ENABLED Step(t)

\* C9, the state it excludes: a call waits for a lock while no other call
\* that could release it is still taking steps.
C9_NoCallWaitsForever ==
    (InBounds /\ ~crashed) =>
        \A t \in Threads :
            Waiting(t) => \E u \in Threads : Running(u) /\ ~Waiting(u)

\* C11: with several threads, a search_element(k) invoked after an
\* insert_element(k, v) returned 0, with no delete_element(k) invoked since,
\* returns true with the value v; a search_element(k) invoked after a
\* delete_element(k) returned, with no insert_element(k) invoked since,
\* returns false; whatever the other threads do to other keys.
C11_SearchSeesSettled ==
    WellSized => \A t \in Threads :
        (Returned(t, "search") /\ expect[t].known) =>
            IF expect[t].value # 0
            THEN loc[t].found /\ loc[t].value_out = expect[t].value
            ELSE ~loc[t].found

\* The nodes a running insert_element or delete_element may have kept locked:
\* the header and the nodes of update[].
Retained(t) == ({loc[t].update[i] : i \in Levels} \cup {Header}) \ {NULL}

\* C12: when insert_element returns, with 0 or with 1, the calling thread
\* holds no lock of the header or of a node of update[]: every lock it
\* kept during the descent has been released, for every drawn height.
C12_InsertReturnsUnlocked ==
    [][\A t \in Threads :
          (WellSized /\ loc[t].op = "insert" /\ Returns(t)) =>
              LocksHeldBy(heap', t) \cap Retained(t) = {}]_vars

\* C13: when delete_element returns, the calling thread holds no lock of
\* the header, of a node of update[] or of the level-0 successor it locked
\* at line 333, and the mutexes its release loop unlocked were all locked
\* by it.
C13_DeleteReturnsUnlocked ==
    [][\A t \in Threads :
          (WellSized /\ loc[t].op = "delete" /\ Returns(t)) =>
              /\ LocksHeldBy(heap', t) \cap (Retained(t) \cup {loc[t].current}) = {}
              /\ \A n \in NodeIds :
                    (heap[n].mtx # NoThread /\ heap'[n].mtx = NoThread) => heap[n].mtx = t]_vars

\* C14: at every moment of a search_element call the calling thread holds
\* at most two node locks, and two only between the lock of a successor
\* (lines 275, 285) and the unlock of the node it came from (lines 281, 291).
C14_SearchHoldsAtMostTwo ==
    WellSized => \A t \in Threads :
        (Running(t) /\ loc[t].op = "search") =>
            /\ Cardinality(LocksHeldBy(heap, t)) <= 2
            /\ Cardinality(LocksHeldBy(heap, t)) = 2 => pc[t] \in {"s_release", "s_finish"}

\* Thread t acquires the mutex of node n in this step.
Acquires(t, n) == heap[n].mtx # t /\ heap'[n].mtx = t

\* The header is below every node; the nodes are ordered by their keys.
LockBefore(m, n) == m # n /\ (m = Header \/ (n # Header /\ heap[m].key < heap[n].key))

\* C15: every node lock insert_element, delete_element, search_element and
\* dump_file acquire is on a node whose key is strictly greater than the
\* key of every node whose lock the same thread already holds, the header
\* counting as smaller than every key.
C15_LocksInKeyOrder ==
    [][\A t \in Threads : \A n \in NodeIds :
          (WellSized /\ Acquires(t, n)) =>
              \A m \in LocksHeldBy(heap, t) : LockBefore(m, n)]_vars

\* C16: when two threads run delete_element(k) at the same time for a key
\* stored once, neither call ends the process, and once both have returned
\* the key is gone and the element count is one less than before: one call
\* removed the node, the other changed nothing.
C16_OneDeleteWins ==
    (WellSized /\ race.on) =>
        /\ ~crashed
        /\ Quiescent =>
              /\ race.key \notin StoredKeys(heap)
              /\ _element_count = race.count - 1

\* C17: no thread reads a field of a freed node, locks its mutex or waits
\* on it: no access to a freed node has happened, and no running call holds
\* in next, the pointer it read from a forward slot and is about to lock,
\* a node that delete_element has freed.
C17_NoUseAfterFree ==
    WellSized =>
        /\ ~uaf
        /\ \A t \in Threads :
              (Running(t) /\ loc[t].next # NULL) => ~Freed(heap, loc[t].next)

\* C18: once delete_element has freed a node, no forward slot of the header
\* or of a node still allocated points to it, at any level 0.._max_level.
C18_FreedNodeUnlinked ==
    WellSized =>
        \A n \in NodeIds : Freed(heap, n) =>
            \A m \in NodeIds : \A i \in Levels :
                heap[m].st = "live" => heap[m].forward[i] # n

\* C19: whenever no call is in progress, the header has no successor on a
\* level above _skip_list_level.
C19_NothingAboveListLevel ==
    (WellSized /\ Quiescent) =>
        \A i \in Levels : i > _skip_list_level => heap[Header].forward[i] = NULL

\* C20: in the single-threaded SkipList, after every call _skip_list_level
\* is 0 or _header->forward[_skip_list_level] is present (in the list the
\* calls work on and in the list load_file fills); and once every inserted
\* key has been deleted, size() is 0, _skip_list_level is 0 and
\* _header->forward[0] is absent.
TopLevelTight(L) == L.level = 0 \/ L.heap[Header].forward[L.level] # NULL

C20_TopLevelTight ==
    /\ TopLevelTight(slist)
    /\ TopLevelTight(loaded.list)
    /\ track.live = {} =>
         /\ slist.count = 0
         /\ slist.level = 0
         /\ slist.heap[Header].forward[0] = NULL

\* Every key was inserted and deleted, the list once stood at the highest
\* level, and the last delete_element emptied it.
C20_Witness ==
    /\ last.op = "delete"
    /\ track.live = {} /\ track.gone = SKeys /\ track.peak = MaxLevel
    /\ slist.level = 0

\* C21: every write to a slot forward[i] of the header or of a linked node,
\* by the splice of insert_element or the unlink of delete_element, is made
\* by a thread that holds the mutex of that node when it writes.
Writes(t, n) ==
    /\ pc[t] \in {"i_splice", "d_unlink"}
    /\ loc'[t].i = loc[t].i + 1
    /\ n = loc[t].update[loc[t].i]
    /\ heap[n].st = "live"

C21_WritesUnderLock ==
    [][\A t \in Threads : \A n \in NodeIds :
         (WellSized /\ Writes(t, n)) => heap[n].mtx = t]_vars

\* C22: dump_file called while no other operation runs does not end the
\* process, and when it has returned STORE_FILE holds exactly one key:value
\* record for each stored node, in the order of level 0, with ascending
\* keys, and the file mutex and every node lock the call took are released.
RECURSIVE Records(_, _)
Records(h, ns) ==
    IF ns = <<>> THEN <<>>
    ELSE IntToString(h[Head(ns)].key) \o <<":">> \o IntToString(h[Head(ns)].value)
         \o <<"\n">> \o Records(h, Tail(ns))

DumpsAlone(t) ==
    /\ loc[t].op = "dump" /\ pc[t] # "idle"
    /\ \A u \in Threads \ {t} : pc[u] \in {"idle", "returned"}

C22_DumpAlone ==
    \A t \in Threads :
        (WellSized /\ DumpsAlone(t)) =>
            /\ ~crashed
            /\ pc[t] = "returned" =>
                 /\ store_file = Records(heap, Chain(heap, 0))
                 /\ \A j \in 1..(Len(Chain(heap, 0)) - 1) :
                        heap[Chain(heap, 0)[j]].key < heap[Chain(heap, 0)[j + 1]].key
                 /\ _file_mutex = NoThread
                 /\ LocksHeldBy(heap, t) = {}

\* C23: load_file makes no insert_element call for a line that is empty or
\* holds no ':', wherever the line stands in the file, and for every other
\* line exactly one call, with the text before the first ':' as key and the
\* text after it as value.
CallsFor(j) == {c \in 1..Len(load.calls) : load.calls[c].line = j}
Malformed(line) == line = <<>> \/ \A m \in 1..Len(line) : line[m] # delimiter
BeforeColon(line) ==
    SubSeq(line, 1, (CHOOSE m \in 1..Len(line) :
                        line[m] = delimiter /\ \A q \in 1..(m - 1) : line[q] # delimiter) - 1)
AfterColon(line) == SubSeq(line, Len(BeforeColon(line)) + 2, Len(line))

C23_LoadSkipsMalformed ==
    \A j \in 1..Len(load.lines) :
        j < load.j =>
            IF Malformed(load.lines[j]) THEN CallsFor(j) = {}
            ELSE /\ Cardinality(CallsFor(j)) = 1
                 /\ \A c \in CallsFor(j) :
                        /\ load.calls[c].key = BeforeColon(load.lines[j])
                        /\ load.calls[c].value = AfterColon(load.lines[j])

\* C24: the header tSkipList(max_level) constructs has height max_level, at
\* every time of the run; before the first call its slots 0..max_level are
\* all absent.
C24_HeaderHeight ==
    /\ heap[Header].node_level = MaxLevel
    /\ nops = 0 => \A i \in Levels : heap[Header].forward[i] = NULL

====
